---- MODULE Spec2Model ----
(***************************************************************************)
(* Trip monitoring and alert dispatch of bike-share-alerts                 *)
(* (backend/api/routers/trips.py, cron.py, users.py).                      *)
(*                                                                         *)
(* The persistent store is the state: the routes, trips and users         *)
(* tables.  The current_station_status view is written by an external      *)
(* ingestion, so its content is an input of each handler that reads it.    *)
(* Every request handler and every heartbeat tick is one action (handlers  *)
(* do not overlap in Spec).                                                *)
(***************************************************************************)
EXTENDS Integers, Sequences, FiniteSets, TLC

VARIABLES
    routes,          \* routes table: route_id -> row
    trips,           \* trips table: sequence of rows, trip_id = index
    device_token,    \* users.device_token is set and non-empty: user -> BOOLEAN
    clock,           \* datetime.now(UTC) as a logical instant
    evals,           \* observation: the evaluations run by the latest step
    resp,            \* observation: the response of the latest handler
    procs            \* handlers in flight: process -> position and locals

vars == <<routes, trips, device_token, clock, evals, resp, procs>>

(***************************************************************************)
(* Bounds of the model.                                                    *)
(***************************************************************************)
MaxTrips == 3
MaxClock == 4

\* Python None / SQL NULL for the integer-valued columns and parameters.
NULL == -1

\* A NULL target_departure_time (a time column holds hour and minute).
NullTime == [hour |-> NULL, minute |-> NULL]

Users == {"u1", "u2"}
Stations == {7000, 7002, 7004}
AllRouteIds == <<"r1", "r2", "r3">>
\* Trip ids a client may send: those of the existing trips and an unknown one.
TripIds == 1..(Len(trips) + 1)

\* Contents of current_station_status a handler may read: station ->
\* (bikes, docks); a station without a row has no observation.
Obs(b, d) == [bikes |-> b, docks |-> d]
StatusTables ==
    {<<>>,
     (7000 :> Obs(1, 0)) @@ (7002 :> Obs(5, 0)) @@ (7004 :> Obs(5, 5)),
     (7000 :> Obs(1, 0)) @@ (7002 :> Obs(1, 0)) @@ (7004 :> Obs(1, 0)),
     (7002 :> Obs(1, 5)) @@ (7004 :> Obs(5, 5))}

\* Locations a client reports on entering the docking zone.
Locations == {[lat |-> 43, lon |-> 79]}

\* Instants of a tick: Python weekday (0 = Monday), hour, minute.
TickTimes ==
    {[weekday |-> 2, hour |-> 8, minute |-> 44],
     [weekday |-> 2, hour |-> 8, minute |-> 45],
     [weekday |-> 2, hour |-> 9, minute |-> 59]}

\* The routes table of the main scenario.  u1 owns two scheduled routes
\* whose alert windows overlap, u2 owns one.
MainRoutes ==
    [rid \in {"r1", "r2", "r3"} |->
        CASE rid = "r1" ->
                [user_email |-> "u1",
                 start_station_ids |-> <<7000, 7002>>,
                 end_station_ids |-> <<7000, 7002, 7004>>,
                 target_departure_time |-> [hour |-> 9, minute |-> 0],
                 alert_lead_time_minutes |-> 15,
                 days_of_week |-> {3},
                 bikes_threshold |-> 2,
                 docks_threshold |-> 3,
                 is_active |-> TRUE]
          [] rid = "r2" ->
                [user_email |-> "u1",
                 start_station_ids |-> <<7002>>,
                 end_station_ids |-> <<7004>>,
                 target_departure_time |-> [hour |-> 9, minute |-> 30],
                 alert_lead_time_minutes |-> 15,
                 days_of_week |-> {3},
                 bikes_threshold |-> 2,
                 docks_threshold |-> 2,
                 is_active |-> TRUE]
          [] OTHER ->
                [user_email |-> "u2",
                 start_station_ids |-> <<7004, 7000>>,
                 end_station_ids |-> <<7002>>,
                 target_departure_time |-> [hour |-> 9, minute |-> 0],
                 alert_lead_time_minutes |-> 15,
                 days_of_week |-> {3, 4},
                 bikes_threshold |-> 2,
                 docks_threshold |-> 2,
                 is_active |-> TRUE]]

\* users.device_token of the main scenario: u1 has registered a device,
\* u2 has not.
MainTokens == [u \in Users |-> u = "u1"]

NoTime == [weekday |-> 0, hour |-> 0, minute |-> 0]

\* What goes wrong around one handler invocation: fail_at is the ordinal of
\* the store write (INSERT or UPDATE with its commit) that raises, NULL when
\* none does; push_ok tells whether the APNs call succeeds.
NoFault == [fail_at |-> NULL, push_ok |-> TRUE]

NoResp ==
    [op |-> "none", caller |-> "", trip_id |-> 0, status |-> 0, state |-> "",
     timestamp |-> NoTime, activated |-> 0, starting |-> 0, docking |-> 0,
     fault |-> NoFault, name |-> "", route_id |-> "", existed |-> FALSE,
     alert |-> FALSE, message |-> <<>>, data |-> <<>>]

\* Handlers whose statements may interleave with those of other handlers.
\* A handler that runs alone is one step and never shows up here.
Procs == {"p1", "p2"}

Idle ==
    [op |-> "idle", pc |-> "idle", at |-> NoTime, candidates |-> <<>>,
     rows |-> <<>>, trip_id |-> 0, user_email |-> "",
     activated |-> 0, starting |-> 0, docking |-> 0]

NoProcs == [p \in Procs |-> Idle]

(***************************************************************************)
(* Station selection.                                                      *)
(***************************************************************************)

\* SELECT station_id, num_X FROM current_station_status
\* WHERE station_id = ANY(ids) ORDER BY array_position(ids, station_id)
StationStatuses(status, ids, field) ==
    LET present == SelectSeq(ids, LAMBDA s : s \in DOMAIN status)
    IN  [i \in 1..Len(present) |-> <<present[i], status[present[i]][field]>>]

\* The selection loop of check_start_stations.
RECURSIVE StartScan(_, _, _, _, _)
StartScan(rows, i, thr, f, c) ==
    IF i > Len(rows) THEN <<f, c>>
    ELSE LET f1 == IF f = NULL THEN rows[i][1] ELSE f
             c1 == IF f = NULL THEN rows[i][2] ELSE c
         IN  IF rows[i][2] >= thr
             THEN <<rows[i][1], rows[i][2]>>
             ELSE StartScan(rows, i + 1, thr, f1, c1)

\* Faulty variant of the start-side selection: the loop does not stop at the
\* first qualifying row, so the last qualifying row wins.
RECURSIVE StartScanNoBreak(_, _, _, _, _)
StartScanNoBreak(rows, i, thr, f, c) ==
    IF i > Len(rows) THEN <<f, c>>
    ELSE IF rows[i][2] >= thr \/ f = NULL
         THEN StartScanNoBreak(rows, i + 1, thr, rows[i][1], rows[i][2])
         ELSE StartScanNoBreak(rows, i + 1, thr, f, c)

SelectStartNoBreak(rows, thr) == StartScanNoBreak(rows, 1, thr, NULL, 0)

SelectStart(rows, thr) == StartScan(rows, 1, thr, NULL, 0)

\* The selection loop of check_end_stations, then its fallback.
RECURSIVE EndScan(_, _, _)
EndScan(rows, i, thr) ==
    IF i > Len(rows) THEN <<NULL, 0>>
    ELSE IF rows[i][2] >= thr
         THEN <<rows[i][1], rows[i][2]>>
         ELSE EndScan(rows, i + 1, thr)

\* Faulty variant of the end-side selection: no fallback after the scan.
SelectEndNoFallback(rows, thr) == EndScan(rows, 1, thr)

SelectEnd(rows, thr) ==
    LET r == EndScan(rows, 1, thr)
    IN  IF r[1] = NULL /\ Len(rows) > 0 THEN <<rows[1][1], rows[1][2]>> ELSE r

\* Faulty variants of should_alert: one alerts on every evaluation, one
\* ignores a change of the count at an unchanged focus.
ShouldAlertAlways(focused_station_id, last_count, new_focused_station, new_count) ==
    TRUE

ShouldAlertFocusOnly(focused_station_id, last_count, new_focused_station, new_count) ==
    IF focused_station_id = NULL
    THEN TRUE
    ELSE new_focused_station # focused_station_id

\* Faulty variant of should_alert: a first check (no focus yet) never alerts.
ShouldAlertNoFirstCheck(focused_station_id, last_count, new_focused_station, new_count) ==
    /\ focused_station_id # NULL
    /\ (new_focused_station # focused_station_id \/ new_count # last_count)

\* should_alert of both evaluations.
ShouldAlert(focused_station_id, last_count, new_focused_station, new_count) ==
    IF focused_station_id = NULL
    THEN TRUE
    ELSE new_focused_station # focused_station_id \/ new_count # last_count

\* next((i for i, (sid, _) in enumerate(all_stations) if sid == focused), 0)
RECURSIVE AlertLevelFrom(_, _, _)
AlertLevelFrom(all_stations, i, focused_station_id) ==
    IF i > Len(all_stations) THEN 0
    ELSE IF all_stations[i][1] = focused_station_id THEN i - 1
         ELSE AlertLevelFrom(all_stations, i + 1, focused_station_id)

AlertLevel(all_stations, focused_station_id) ==
    AlertLevelFrom(all_stations, 1, focused_station_id)

\* send_bike_alert / send_dock_alert reach the apns call.
Dispatches(user_email, focused_station_id) ==
    focused_station_id # NULL /\ device_token[user_email]

(***************************************************************************)
(* Evaluations.  db = [trips, evals, writes, fault, failed] is threaded    *)
(* through one handler: the trips table, the evaluations run so far, the   *)
(* number of store writes attempted, the faults of this invocation, and    *)
(* whether an exception is propagating out of the handler.                 *)
(***************************************************************************)
Session(ts, fault) ==
    [trips |-> ts, evals |-> <<>>, writes |-> 0, fault |-> fault, failed |-> FALSE]

\* cur.execute(INSERT | UPDATE ..); conn.commit() raises on this attempt.
WriteFails(db) == db.fault.fail_at = db.writes + 1

\* Faulty variant: the push is attempted before the UPDATE is committed.
DispatchAttemptedBeforePersist(alert, persisted, user_email, focused_station_id) ==
    alert /\ Dispatches(user_email, focused_station_id)

\* The apns call is reached: after the committed UPDATE of an alerting
\* evaluation, with a focus and a device token.
DispatchAttempted(alert, persisted, user_email, focused_station_id) ==
    alert /\ persisted /\ Dispatches(user_email, focused_station_id)

\* Faulty variant: the row is written only when the push went through.
EvaluationRowOnDelivery(persisted, push_ok, old, updated) ==
    IF persisted /\ push_ok THEN updated ELSE old

\* The trip row after the UPDATE and commit of an evaluation; the outcome of
\* the push, which comes later, has no part in it.
EvaluationRow(persisted, push_ok, old, updated) ==
    IF persisted THEN updated ELSE old

\* Faulty variant: a failing push propagates out of send_*_alert.
AlertRaisesOnFailure(dispatched, push_ok) == dispatched /\ ~push_ok

\* try: await apns.send_*_alert(..) except Exception: print(..)
AlertRaises(dispatched, push_ok) == FALSE

\* Faulty variant of the alert UPDATE: started_at is refreshed as well.
AlertUpdateRestarts(trip, column, new_focused_station, new_count, now) ==
    [trip EXCEPT !.focused_station_id = new_focused_station,
                 ![column] = new_count,
                 !.last_checked_at = now,
                 !.started_at = now]

\* UPDATE trips SET focused_station_id, last_bike_count | last_dock_count,
\*     last_checked_at
AlertUpdate(trip, column, new_focused_station, new_count, now) ==
    [trip EXCEPT !.focused_station_id = new_focused_station,
                 ![column] = new_count,
                 !.last_checked_at = now]

\* Faulty variant of the no-alert UPDATE: the focus is cleared as well.
CheckedUpdateClearsFocus(trip, now) ==
    [trip EXCEPT !.last_checked_at = now, !.focused_station_id = NULL]

\* UPDATE trips SET last_checked_at
CheckedUpdate(trip, now) ==
    [trip EXCEPT !.last_checked_at = now]

\* Faulty variant of the early return: the check is still time-stamped.
MissingRouteTouches(db, trip_id, now) ==
    [db EXCEPT !.trips[trip_id].last_checked_at = now]

\* route_data = cur.fetchone(); if not route_data: return
MissingRoute(db, trip_id, now) == db

CheckStartStations(db, status, trip_id, route_id, user_email, focused_station_id, last_bike_count, now) ==
    IF db.failed THEN db
    ELSE IF route_id \notin DOMAIN routes THEN MissingRoute(db, trip_id, now)
    ELSE
    LET route == routes[route_id]
        rows == StationStatuses(status, route.start_station_ids, "bikes")
        sel == SelectStart(rows, route.bikes_threshold)
        alert == ShouldAlert(focused_station_id, last_bike_count, sel[1], sel[2])
        old == db.trips[trip_id]
        persisted == ~WriteFails(db)
        new == EvaluationRow(persisted, db.fault.push_ok, old,
                   IF alert
                   THEN AlertUpdate(old, "last_bike_count", sel[1], sel[2], now)
                   ELSE CheckedUpdate(old, now))
        dispatched == DispatchAttempted(alert, persisted, user_email, sel[1])
        ev == [trip_id |-> trip_id, kind |-> "bike",
               status |-> status, rows |-> rows,
               focused_station_id |-> focused_station_id,
               last_count |-> last_bike_count,
               stored_focus |-> old.focused_station_id,
               stored_count |-> old.last_bike_count,
               new_focus |-> sel[1], new_count |-> sel[2],
               should_alert |-> alert,
               persisted |-> persisted,
               dispatched |-> dispatched,
               delivered |-> dispatched /\ db.fault.push_ok,
               alert_level |-> 0]
    IN  [db EXCEPT !.trips = [db.trips EXCEPT ![trip_id] = new],
                   !.evals = Append(db.evals, ev),
                   !.writes = db.writes + 1,
                   !.failed = ~persisted \/ AlertRaises(dispatched, db.fault.push_ok)]

CheckEndStations(db, status, trip_id, route_id, user_email, focused_station_id, last_dock_count, now) ==
    IF db.failed THEN db
    ELSE IF route_id \notin DOMAIN routes THEN MissingRoute(db, trip_id, now)
    ELSE
    LET route == routes[route_id]
        rows == StationStatuses(status, route.end_station_ids, "docks")
        sel == SelectEnd(rows, route.docks_threshold)
        alert == ShouldAlert(focused_station_id, last_dock_count, sel[1], sel[2])
        old == db.trips[trip_id]
        persisted == ~WriteFails(db)
        new == EvaluationRow(persisted, db.fault.push_ok, old,
                   IF alert
                   THEN AlertUpdate(old, "last_dock_count", sel[1], sel[2], now)
                   ELSE CheckedUpdate(old, now))
        dispatched == DispatchAttempted(alert, persisted, user_email, sel[1])
        ev == [trip_id |-> trip_id, kind |-> "dock",
               status |-> status, rows |-> rows,
               focused_station_id |-> focused_station_id,
               last_count |-> last_dock_count,
               stored_focus |-> old.focused_station_id,
               stored_count |-> old.last_dock_count,
               new_focus |-> sel[1], new_count |-> sel[2],
               should_alert |-> alert,
               persisted |-> persisted,
               dispatched |-> dispatched,
               delivered |-> dispatched /\ db.fault.push_ok,
               alert_level |-> IF sel[1] = NULL THEN 0 ELSE AlertLevel(rows, sel[1])]
    IN  [db EXCEPT !.trips = [db.trips EXCEPT ![trip_id] = new],
                   !.evals = Append(db.evals, ev),
                   !.writes = db.writes + 1,
                   !.failed = ~persisted \/ AlertRaises(dispatched, db.fault.push_ok)]

(***************************************************************************)
(* Heartbeat: activation, then the monitoring sweep.                       *)
(***************************************************************************)
\* Faulty variant of the open-trip test: only trips still in STARTING count.
HasOpenTripStartingOnly(ts, user_email) ==
    \E i \in 1..Len(ts) :
        /\ ts[i].user_email = user_email
        /\ ts[i].completed_at = NULL
        /\ ts[i].state = "STARTING"

\* LEFT JOIN trips t ON t.user_email = r.user_email AND t.completed_at IS NULL
HasOpenTrip(ts, user_email) ==
    \E i \in 1..Len(ts) : ts[i].user_email = user_email /\ ts[i].completed_at = NULL

\* Faulty variant of the weekday conversion: Python's numbering is kept.
ConvertWeekdayIdentity(w) == w

\* weekday = (now.weekday() + 1) % 7  (Python 0 = Monday, routes 0 = Sunday)
ConvertWeekday(w) == (w + 1) % 7

\* Faulty variant of the candidate query: disabled routes are candidates too.
RoutesToActivateDisabledToo(ts, weekday) ==
    SelectSeq(AllRouteIds,
        LAMBDA rid :
            /\ rid \in DOMAIN routes
            /\ ~HasOpenTrip(ts, routes[rid].user_email)
            /\ weekday \in routes[rid].days_of_week
            /\ routes[rid].target_departure_time # NullTime)

\* The candidate query of activate_scheduled_routes, rows in table order.
RoutesToActivate(ts, weekday) ==
    SelectSeq(AllRouteIds,
        LAMBDA rid :
            /\ rid \in DOMAIN routes
            /\ routes[rid].is_active
            /\ ~HasOpenTrip(ts, routes[rid].user_email)
            /\ weekday \in routes[rid].days_of_week
            /\ routes[rid].target_departure_time # NullTime)

\* Faulty variant of the window test: the end of the grace hour is included.
InAlertWindowClosed(target_time, lead_minutes, current_time) ==
    LET target_minutes == target_time.hour * 60 + target_time.minute
        alert_minutes == target_minutes - lead_minutes
        current_minutes == current_time.hour * 60 + current_time.minute
    IN  current_minutes >= alert_minutes /\ current_minutes <= target_minutes + 60

InAlertWindow(target_time, lead_minutes, current_time) ==
    LET target_minutes == target_time.hour * 60 + target_time.minute
        alert_minutes == target_minutes - lead_minutes
        current_minutes == current_time.hour * 60 + current_time.minute
    IN  current_minutes >= alert_minutes /\ current_minutes < target_minutes + 60

\* INSERT INTO trips (route_id, user_email, state) VALUES (.., .., 'STARTING')
NewTrip(route_id, user_email, now) ==
    [route_id |-> route_id, user_email |-> user_email, state |-> "STARTING",
     started_at |-> now, cycling_started_at |-> NULL,
     docking_started_at |-> NULL, completed_at |-> NULL,
     focused_station_id |-> NULL, last_bike_count |-> NULL,
     last_dock_count |-> NULL, last_checked_at |-> NULL,
     last_known_lat |-> NULL, last_known_lon |-> NULL,
     last_location_update_at |-> NULL]

RECURSIVE ActivateLoop(_, _, _, _, _, _)
ActivateLoop(db, status, rows, at, now, activated) ==
    IF rows = <<>> \/ db.failed THEN [db |-> db, activated |-> activated]
    ELSE
    LET route_id == Head(rows)
        r == routes[route_id]
    IN  IF InAlertWindow(r.target_departure_time, r.alert_lead_time_minutes, at)
        THEN IF WriteFails(db)
             THEN [db |-> [db EXCEPT !.writes = db.writes + 1, !.failed = TRUE],
                   activated |-> activated]
             ELSE
             LET inserted == [db EXCEPT !.trips =
                                 Append(db.trips, NewTrip(route_id, r.user_email, now)),
                                        !.writes = db.writes + 1]
                 trip_id == Len(inserted.trips)
             IN  ActivateLoop(
                     CheckStartStations(inserted, status, trip_id, route_id,
                                        r.user_email, NULL, NULL, now),
                     status, Tail(rows), at, now, activated + 1)
        ELSE ActivateLoop(db, status, Tail(rows), at, now, activated)

\* Faulty variant of the activation: the candidate rows are counted, not the
\* trips created.
ActivateScheduledRoutesCountsRows(db, status, at, now) ==
    LET weekday == (at.weekday + 1) % 7
        rows == RoutesToActivate(db.trips, weekday)
    IN  [ActivateLoop(db, status, rows, at, now, 0) EXCEPT !.activated = Len(rows)]

ActivateScheduledRoutes(db, status, at, now) ==
    LET weekday == ConvertWeekday(at.weekday)
    IN  ActivateLoop(db, status, RoutesToActivate(db.trips, weekday), at, now, 0)

\* Faulty variant of the sweep query: every open trip, whatever its state.
OpenTripsInAnyState(ts, st) ==
    SelectSeq([i \in 1..Len(ts) |-> i], LAMBDA i : ts[i].completed_at = NULL)

\* Rows of  SELECT trip_id, .. FROM trips WHERE completed_at IS NULL AND state = st
OpenTripsInState(ts, st) ==
    SelectSeq([i \in 1..Len(ts) |-> i],
              LAMBDA i : ts[i].completed_at = NULL /\ ts[i].state = st)

RECURSIVE SweepStarting(_, _, _, _, _)
SweepStarting(db, status, ids, snapshot, now) ==
    IF ids = <<>> THEN db
    ELSE LET t == snapshot[Head(ids)]
         IN  SweepStarting(
                 CheckStartStations(db, status, Head(ids), t.route_id, t.user_email,
                                    t.focused_station_id, t.last_bike_count, now),
                 status, Tail(ids), snapshot, now)

RECURSIVE SweepDocking(_, _, _, _, _)
SweepDocking(db, status, ids, snapshot, now) ==
    IF ids = <<>> THEN db
    ELSE LET t == snapshot[Head(ids)]
         IN  SweepDocking(
                 CheckEndStations(db, status, Head(ids), t.route_id, t.user_email,
                                  t.focused_station_id, t.last_dock_count, now),
                 status, Tail(ids), snapshot, now)

MonitorActiveTrips(db, status, now) ==
    LET starting_trips == OpenTripsInState(db.trips, "STARTING")
        db1 == SweepStarting(db, status, starting_trips, db.trips, now)
        docking_trips == OpenTripsInState(db1.trips, "DOCKING")
        db2 == SweepDocking(db1, status, docking_trips, db1.trips, now)
    IN  [db |-> db2, starting |-> Len(starting_trips), docking |-> Len(docking_trips)]

\* Faulty variant of the tick: the sweep runs before the activation.
RunHeartbeatSweepFirst(db, status, at, now) ==
    LET mon == MonitorActiveTrips(db, status, now)
        act == ActivateScheduledRoutes(mon.db, status, at, now)
    IN  [db |-> act.db, activated |-> act.activated,
         starting |-> mon.starting, docking |-> mon.docking]

\* heartbeat: activated_count, then monitoring_stats, over the same cursor.
RunHeartbeat(db, status, at, now) ==
    LET act == ActivateScheduledRoutes(db, status, at, now)
        mon == MonitorActiveTrips(act.db, status, now)
    IN  [db |-> mon.db, activated |-> act.activated,
         starting |-> mon.starting, docking |-> mon.docking]

\* One tick under the given faults.  An exception leaving the handler gives
\* a 500 without a body; what was committed before it stays committed.
HeartbeatWith(at, status, fault) ==
    /\ clock < MaxClock
    /\ \E r \in {RunHeartbeat(Session(trips, fault), status, at, clock + 1)} :
           /\ Len(r.db.trips) <= MaxTrips
           /\ trips' = r.db.trips
           /\ evals' = r.db.evals
           /\ clock' = clock + 1
           /\ resp' = IF r.db.failed
                      THEN [NoResp EXCEPT !.op = "heartbeat", !.status = 500,
                                          !.fault = fault]
                      ELSE [NoResp EXCEPT !.op = "heartbeat", !.status = 200,
                                          !.timestamp = at,
                                          !.activated = r.activated,
                                          !.starting = r.starting,
                                          !.docking = r.docking,
                                          !.fault = fault]
    /\ UNCHANGED <<routes, device_token, procs>>

HeartbeatAt(at, status) == HeartbeatWith(at, status, NoFault)

Heartbeat(times, tables) ==
    \E at \in times, status \in tables : HeartbeatAt(at, status)

(***************************************************************************)
(* Client transitions.                                                     *)
(***************************************************************************)

\* SELECT .. FROM trips WHERE trip_id = %s AND user_email = %s
\*                        AND completed_at IS NULL
\* Faulty variant of the lookup: the completed_at IS NULL condition is dropped.
OpenTripOfAnyCompletion(trip_id, user_email) ==
    /\ trip_id \in 1..Len(trips)
    /\ trips[trip_id].user_email = user_email

\* Faulty variant of the lookup: the user_email condition is dropped.
OpenTripOfAnyOwner(trip_id, user_email) ==
    /\ trip_id \in 1..Len(trips)
    /\ trips[trip_id].completed_at = NULL

OpenTripOf(trip_id, user_email) ==
    /\ trip_id \in 1..Len(trips)
    /\ trips[trip_id].user_email = user_email
    /\ trips[trip_id].completed_at = NULL

Failure(op, trip_id, user_email, code, state) ==
    /\ resp' = [NoResp EXCEPT !.op = op, !.caller = user_email, !.trip_id = trip_id,
                              !.status = code, !.state = state]
    /\ evals' = <<>>
    /\ UNCHANGED <<routes, trips, device_token, clock, procs>>

\* Faulty variant of the start_trip UPDATE: cycling_started_at is not written.
StartTripUpdateNoStamp(trip, now) ==
    [trip EXCEPT !.state = "CYCLING"]

\* UPDATE trips SET state = 'CYCLING', cycling_started_at = now
StartTripUpdate(trip, now) ==
    [trip EXCEPT !.state = "CYCLING", !.cycling_started_at = now]

\* Faulty variant of the enter_docking_zone UPDATE: the location is dropped.
EnterDockingZoneUpdateNoLocation(trip, location, now) ==
    [trip EXCEPT !.state = "DOCKING", !.docking_started_at = now]

\* UPDATE trips SET state = 'DOCKING', docking_started_at = now,
\*     last_known_lat, last_known_lon, last_location_update_at = now
EnterDockingZoneUpdate(trip, location, now) ==
    [trip EXCEPT !.state = "DOCKING",
                 !.docking_started_at = now,
                 !.last_known_lat = location.lat,
                 !.last_known_lon = location.lon,
                 !.last_location_update_at = now]

\* Faulty variant of the end_trip UPDATE: the state column is not written.
EndTripUpdateKeepsState(trip, now) ==
    [trip EXCEPT !.completed_at = now]

\* UPDATE trips SET state = 'COMPLETE', completed_at = now
EndTripUpdate(trip, now) ==
    [trip EXCEPT !.state = "COMPLETE", !.completed_at = now]

StartTrip(trip_id, user_email) ==
    /\ clock < MaxClock
    /\ IF ~OpenTripOf(trip_id, user_email)
       THEN Failure("start_trip", trip_id, user_email, 404, "")
       ELSE IF trips[trip_id].state # "STARTING"
       THEN Failure("start_trip", trip_id, user_email, 400, trips[trip_id].state)
       ELSE
         /\ clock' = clock + 1
         /\ trips' = [trips EXCEPT ![trip_id] = StartTripUpdate(trips[trip_id], clock + 1)]
         /\ evals' = <<>>
         /\ resp' = [NoResp EXCEPT !.op = "start_trip", !.caller = user_email,
                                   !.trip_id = trip_id, !.status = 200,
                                   !.state = "CYCLING"]
         /\ UNCHANGED <<routes, device_token, procs>>

\* enter_docking_zone under the given faults: the transition UPDATE is the
\* first store write of the call, the UPDATE of the evaluation the second.
EnterDockingZoneWith(trip_id, user_email, location, tables, faults) ==
    /\ clock < MaxClock
    /\ IF ~OpenTripOf(trip_id, user_email)
       THEN Failure("enter_docking_zone", trip_id, user_email, 404, "")
       ELSE IF trips[trip_id].state # "CYCLING"
       THEN Failure("enter_docking_zone", trip_id, user_email, 400, trips[trip_id].state)
       ELSE
         \E status \in tables, fault \in faults :
            LET now == clock + 1
                session == Session(trips, fault)
                updated == [trips EXCEPT ![trip_id] =
                               EnterDockingZoneUpdate(trips[trip_id], location, now)]
                entered == IF WriteFails(session)
                           THEN [session EXCEPT !.writes = 1, !.failed = TRUE]
                           ELSE [session EXCEPT !.writes = 1, !.trips = updated]
            IN  \E db \in {CheckEndStations(entered, status, trip_id,
                                             trips[trip_id].route_id,
                                             user_email, NULL, NULL, now)} :
                    /\ clock' = now
                    /\ trips' = db.trips
                    /\ evals' = db.evals
                    /\ resp' = [NoResp EXCEPT
                                   !.op = "enter_docking_zone", !.caller = user_email,
                                   !.trip_id = trip_id,
                                   !.status = IF db.failed THEN 500 ELSE 200,
                                   !.state = IF db.failed THEN "" ELSE "DOCKING",
                                   !.fault = fault]
                    /\ UNCHANGED <<routes, device_token, procs>>

EnterDockingZone(trip_id, user_email, location, tables) ==
    EnterDockingZoneWith(trip_id, user_email, location, tables, {NoFault})

EndTrip(trip_id, user_email) ==
    /\ clock < MaxClock
    /\ IF ~OpenTripOf(trip_id, user_email)
       THEN Failure("end_trip", trip_id, user_email, 404, "")
       ELSE
         /\ clock' = clock + 1
         /\ trips' = [trips EXCEPT ![trip_id] = EndTripUpdate(trips[trip_id], clock + 1)]
         /\ evals' = <<>>
         /\ resp' = [NoResp EXCEPT !.op = "end_trip", !.caller = user_email,
                                   !.trip_id = trip_id, !.status = 200,
                                   !.state = "COMPLETE"]
         /\ UNCHANGED <<routes, device_token, procs>>

\* delete_route: DELETE FROM routes WHERE route_id = %s AND user_email = %s;
\* 404 when no row was deleted.  The statement names the routes table only.
DeleteRoute(route_id, user_email) ==
    /\ clock < MaxClock
    /\ IF route_id \in DOMAIN routes /\ routes[route_id].user_email = user_email
       THEN /\ routes' = [r \in (DOMAIN routes) \ {route_id} |-> routes[r]]
            /\ clock' = clock + 1
            /\ evals' = <<>>
            /\ resp' = [NoResp EXCEPT !.op = "delete_route", !.caller = user_email,
                                      !.status = 204]
            /\ UNCHANGED <<trips, device_token, procs>>
       ELSE Failure("delete_route", 0, user_email, 404, "")

(***************************************************************************)
(* Specification: handlers and ticks run one at a time.                    *)
(***************************************************************************)
Init ==
    /\ routes = MainRoutes
    /\ trips = <<>>
    /\ device_token = MainTokens
    /\ clock = 0
    /\ evals = <<>>
    /\ resp = NoResp
    /\ procs = NoProcs

Next ==
    \/ Heartbeat(TickTimes, StatusTables)
    \/ \E t \in TripIds, u \in Users : StartTrip(t, u)
    \/ \E t \in TripIds, u \in Users, l \in Locations :
           EnterDockingZone(t, u, l, StatusTables)
    \/ \E t \in TripIds, u \in Users : EndTrip(t, u)

Spec == Init /\ [][Next]_vars

(***************************************************************************)
(* Activation window scenario: one scheduled route of u1 whose target time *)
(* and lead time vary; the first tick falls on any minute of a Wednesday.  *)
(***************************************************************************)
WindowTargets ==
    {[hour |-> 9, minute |-> 0], [hour |-> 0, minute |-> 5],
     [hour |-> 23, minute |-> 30]}
WindowLeads == {0, 15, 60}
WindowRoutes ==
    {("r1" :> [MainRoutes["r1"] EXCEPT !.target_departure_time = t,
                                       !.alert_lead_time_minutes = l]) :
        t \in WindowTargets, l \in WindowLeads}
DayMinutes ==
    {[weekday |-> 2, hour |-> h, minute |-> m] : h \in 0..23, m \in 0..59}

InitWindow ==
    /\ routes \in WindowRoutes
    /\ trips = <<>>
    /\ device_token = MainTokens
    /\ clock = 0
    /\ evals = <<>>
    /\ resp = NoResp
    /\ procs = NoProcs

FirstTick == clock = 0 /\ Heartbeat(DayMinutes, {<<>>})

LaterTick == clock > 0 /\ Heartbeat(TickTimes, StatusTables)

NextWindow ==
    \/ FirstTick
    \/ LaterTick
    \/ \E t \in TripIds, u \in Users : EndTrip(t, u)

SpecWindow == InitWindow /\ [][NextWindow]_vars

(***************************************************************************)
(* Station selection scenario: one route of u1 whose station lists and     *)
(* thresholds vary, read against every table of observations.              *)
(***************************************************************************)
SelLists ==
    {l \in UNION {[1..n -> Stations] : n \in 1..Cardinality(Stations)} :
        \A i, j \in DOMAIN l : i # j => l[i] # l[j]}
SelThresholds == {2}
SelRoutes ==
    {("r1" :> [MainRoutes["r1"] EXCEPT !.start_station_ids = l,
                                       !.end_station_ids = l,
                                       !.bikes_threshold = t,
                                       !.docks_threshold = t]) :
        l \in SelLists, t \in SelThresholds}
SelTables == UNION {[S -> {Obs(1, 0), Obs(5, 5)}] : S \in SUBSET Stations}
SelTimes == {[weekday |-> 2, hour |-> 9, minute |-> 0]}

InitSel ==
    /\ routes \in SelRoutes
    /\ trips = <<>>
    /\ device_token = MainTokens
    /\ clock = 0
    /\ evals = <<>>
    /\ resp = NoResp
    /\ procs = NoProcs

NextSel ==
    \/ Heartbeat(SelTimes, SelTables)
    \/ \E t \in DOMAIN trips : StartTrip(t, trips[t].user_email)
    \/ \E t \in DOMAIN trips, l \in Locations :
           EnterDockingZone(t, trips[t].user_email, l, SelTables)
    \/ \E t \in DOMAIN trips : EndTrip(t, trips[t].user_email)

SpecSel == InitSel /\ [][NextSel]_vars

(***************************************************************************)
(* Fault scenario: the main routes, with store writes and pushes that may  *)
(* fail during a tick or a docking entry.  Clients act on their own trips. *)
(***************************************************************************)
FaultPoints == {NULL, 1, 2, 5}
Faults == [fail_at : FaultPoints, push_ok : BOOLEAN]
FaultTables == {t \in StatusTables : DOMAIN t = Stations}
FaultTimes == {t \in TickTimes : t.minute # 44}

HeartbeatFault ==
    \E at \in FaultTimes, status \in FaultTables, fault \in Faults :
        HeartbeatWith(at, status, fault)

NextFault ==
    \/ HeartbeatFault
    \/ \E t \in DOMAIN trips : StartTrip(t, trips[t].user_email)
    \/ \E t \in DOMAIN trips, l \in Locations :
           EnterDockingZoneWith(t, trips[t].user_email, l, FaultTables, Faults)
    \/ \E t \in DOMAIN trips : EndTrip(t, trips[t].user_email)

SpecFault == Init /\ [][NextFault]_vars

(***************************************************************************)
(* Client-call scenario: one tick instant inside the windows of r1 and r3, *)
(* then any user sends any call with the id of any trip or of none.        *)
(***************************************************************************)
CallTimes == {t \in TickTimes : t.minute = 45}

NextCalls ==
    \/ Heartbeat(CallTimes, StatusTables)
    \/ \E t \in TripIds, u \in Users : StartTrip(t, u)
    \/ \E t \in TripIds, u \in Users, l \in Locations :
           EnterDockingZone(t, u, l, StatusTables)
    \/ \E t \in TripIds, u \in Users : EndTrip(t, u)

SpecCalls == Init /\ [][NextCalls]_vars

(***************************************************************************)
(* Route deletion scenario: owners delete routes while their trips are     *)
(* open; ticks and client calls go on.                                     *)
(***************************************************************************)
NextRoutes ==
    \/ Heartbeat(CallTimes, FaultTables)
    \/ \E r \in DOMAIN MainRoutes, u \in Users : DeleteRoute(r, u)
    \/ \E t \in DOMAIN trips : StartTrip(t, trips[t].user_email)
    \/ \E t \in DOMAIN trips, l \in Locations :
           EnterDockingZone(t, trips[t].user_email, l, FaultTables)
    \/ \E t \in DOMAIN trips : EndTrip(t, trips[t].user_email)

SpecRoutes == Init /\ [][NextRoutes]_vars

(***************************************************************************)
(* Schedule scenario: the route of u1 is enabled or not, has a target time *)
(* or none, and is active on varying weekdays; the route of u2 is active   *)
(* on Thursdays only.  Ticks fall at 08:45 of any day of the week; owners  *)
(* send client calls in between.                                           *)
(***************************************************************************)
\* The station status every evaluation of the scenario reads.
OverlapStatus == CHOOSE t \in FaultTables : t[7002].bikes = 5

ScheduleDays == {{3}, {0}, {4, 5}, {}}
ScheduleTargets == {NullTime, [hour |-> 9, minute |-> 0]}
ScheduleRoutes ==
    {[MainRoutes EXCEPT !["r1"].is_active = a,
                        !["r1"].target_departure_time = t,
                        !["r1"].days_of_week = d,
                        !["r3"].days_of_week = {4}] :
        a \in BOOLEAN, t \in ScheduleTargets, d \in ScheduleDays}
ScheduleTimes == {[weekday |-> w, hour |-> 8, minute |-> 45] : w \in 0..6}

InitSchedule ==
    /\ routes \in ScheduleRoutes
    /\ trips = <<>>
    /\ device_token = MainTokens
    /\ clock = 0
    /\ evals = <<>>
    /\ resp = NoResp
    /\ procs = NoProcs

NextSchedule ==
    \/ Heartbeat(ScheduleTimes, {OverlapStatus})
    \/ \E t \in DOMAIN trips : StartTrip(t, trips[t].user_email)
    \/ \E t \in DOMAIN trips, l \in Locations :
           EnterDockingZone(t, trips[t].user_email, l, {OverlapStatus})
    \/ \E t \in DOMAIN trips : EndTrip(t, trips[t].user_email)

SpecSchedule == InitSchedule /\ [][NextSchedule]_vars

(***************************************************************************)
(* Overlapping ticks.  Two heartbeat invocations run at once; each SQL     *)
(* statement with its commit is one step, and an evaluation (status read,  *)
(* decision, UPDATE, push) is one step that works on the focus and count   *)
(* its caller read earlier.  evals keeps every evaluation of the scenario. *)
(* The status table is the same for every evaluation.                      *)
(***************************************************************************)

\* Rows of the sweep SELECT as the tick holds them while it iterates.
SweepRows(ts, st, column) ==
    LET ids == OpenTripsInState(ts, st)
    IN  [k \in 1..Len(ids) |->
            [trip_id |-> ids[k], route_id |-> ts[ids[k]].route_id,
             user_email |-> ts[ids[k]].user_email,
             focused_station_id |-> ts[ids[k]].focused_station_id,
             last_count |-> ts[ids[k]][column]]]

\* heartbeat entered: now is taken and the candidate query runs.
TickSelectCandidates(p) ==
    /\ procs[p].op = "idle"
    /\ clock < MaxClock
    /\ \E at \in CallTimes :
          procs' = [procs EXCEPT ![p] =
              [Idle EXCEPT !.op = "heartbeat", !.pc = "activate", !.at = at,
                           !.candidates =
                               RoutesToActivate(trips, ConvertWeekday(at.weekday))]]
    /\ clock' = clock + 1
    /\ UNCHANGED <<routes, trips, device_token, evals, resp>>

\* One iteration of the activation loop up to the INSERT and its commit.
TickInsert(p) ==
    /\ procs[p].pc = "activate"
    /\ IF procs[p].candidates = <<>>
       THEN /\ procs' = [procs EXCEPT ![p].pc = "select_starting"]
            /\ UNCHANGED trips
       ELSE LET route_id == Head(procs[p].candidates)
                r == routes[route_id]
            IN  IF InAlertWindow(r.target_departure_time,
                                 r.alert_lead_time_minutes, procs[p].at)
                THEN /\ Len(trips) < MaxTrips
                     /\ trips' = Append(trips, NewTrip(route_id, r.user_email, clock))
                     /\ procs' = [procs EXCEPT
                            ![p].pc = "first_check",
                            ![p].trip_id = Len(trips) + 1,
                            ![p].candidates = Tail(procs[p].candidates)]
                ELSE /\ procs' = [procs EXCEPT
                            ![p].candidates = Tail(procs[p].candidates)]
                     /\ UNCHANGED trips
    /\ UNCHANGED <<routes, device_token, clock, evals, resp>>

\* check_start_stations(.., trip_id, .., None, None) of the activation loop.
TickFirstCheck(p) ==
    /\ procs[p].pc = "first_check"
    /\ LET t == procs[p].trip_id
           db == CheckStartStations(Session(trips, NoFault), OverlapStatus, t,
                                    trips[t].route_id, trips[t].user_email,
                                    NULL, NULL, clock)
       IN  /\ trips' = db.trips
           /\ evals' = evals \o db.evals
    /\ procs' = [procs EXCEPT ![p].pc = "activate",
                              ![p].activated = procs[p].activated + 1]
    /\ UNCHANGED <<routes, device_token, clock, resp>>

\* SELECT .. FROM trips WHERE completed_at IS NULL AND state = 'STARTING'
TickSelectStarting(p) ==
    /\ procs[p].pc = "select_starting"
    /\ LET rows == SweepRows(trips, "STARTING", "last_bike_count")
       IN  procs' = [procs EXCEPT ![p].pc = "sweep_starting", ![p].rows = rows,
                                  ![p].starting = Len(rows)]
    /\ UNCHANGED <<routes, trips, device_token, clock, evals, resp>>

\* One iteration of the STARTING loop, on the row read by the SELECT.
TickCheckStart(p) ==
    /\ procs[p].pc = "sweep_starting"
    /\ IF procs[p].rows = <<>>
       THEN /\ procs' = [procs EXCEPT ![p].pc = "select_docking"]
            /\ UNCHANGED <<trips, evals>>
       ELSE LET row == Head(procs[p].rows)
                db == CheckStartStations(Session(trips, NoFault), OverlapStatus,
                                         row.trip_id, row.route_id, row.user_email,
                                         row.focused_station_id, row.last_count,
                                         clock)
            IN  /\ trips' = db.trips
                /\ evals' = evals \o db.evals
                /\ procs' = [procs EXCEPT ![p].rows = Tail(procs[p].rows)]
    /\ UNCHANGED <<routes, device_token, clock, resp>>

\* SELECT .. FROM trips WHERE completed_at IS NULL AND state = 'DOCKING'
TickSelectDocking(p) ==
    /\ procs[p].pc = "select_docking"
    /\ LET rows == SweepRows(trips, "DOCKING", "last_dock_count")
       IN  procs' = [procs EXCEPT ![p].pc = "sweep_docking", ![p].rows = rows,
                                  ![p].docking = Len(rows)]
    /\ UNCHANGED <<routes, trips, device_token, clock, evals, resp>>

\* One iteration of the DOCKING loop; after the last one the tick answers.
TickCheckEnd(p) ==
    /\ procs[p].pc = "sweep_docking"
    /\ IF procs[p].rows = <<>>
       THEN /\ procs' = [procs EXCEPT ![p] = [Idle EXCEPT !.op = "finished"]]
            /\ resp' = [NoResp EXCEPT !.op = "heartbeat", !.status = 200,
                                      !.timestamp = procs[p].at,
                                      !.activated = procs[p].activated,
                                      !.starting = procs[p].starting,
                                      !.docking = procs[p].docking]
            /\ UNCHANGED <<trips, evals>>
       ELSE LET row == Head(procs[p].rows)
                db == CheckEndStations(Session(trips, NoFault), OverlapStatus,
                                       row.trip_id, row.route_id, row.user_email,
                                       row.focused_station_id, row.last_count,
                                       clock)
            IN  /\ trips' = db.trips
                /\ evals' = evals \o db.evals
                /\ procs' = [procs EXCEPT ![p].rows = Tail(procs[p].rows)]
                /\ UNCHANGED resp
    /\ UNCHANGED <<routes, device_token, clock>>

NextOverlap ==
    \/ \E p \in Procs : TickSelectCandidates(p)
    \/ \E p \in Procs : TickInsert(p)
    \/ \E p \in Procs : TickFirstCheck(p)
    \/ \E p \in Procs : TickSelectStarting(p)
    \/ \E p \in Procs : TickCheckStart(p)
    \/ \E p \in Procs : TickSelectDocking(p)
    \/ \E p \in Procs : TickCheckEnd(p)

SpecOverlap == Init /\ [][NextOverlap]_vars

(***************************************************************************)
(* Interleaved client calls.  A transition handler is two statements: the  *)
(* SELECT that checks owner, completion and state, and the UPDATE keyed on *)
(* trip_id alone.  Two calls are in flight at most; ticks run alone.       *)
(***************************************************************************)
ClientOps == {"start_trip", "enter_docking_zone", "end_trip"}

\* The state the handler's SELECT must find (end_trip accepts any).
ExpectedState(op) ==
    CASE op = "start_trip" -> {"STARTING"}
      [] op = "enter_docking_zone" -> {"CYCLING"}
      [] op = "end_trip" -> {"STARTING", "CYCLING", "DOCKING", "COMPLETE"}

\* SELECT state FROM trips WHERE trip_id, user_email, completed_at IS NULL
\* and the checks on its result.
CallSelect(p, op, trip_id, user_email) ==
    /\ procs[p].op = "idle"
    /\ clock < MaxClock
    /\ IF ~OpenTripOf(trip_id, user_email)
       THEN Failure(op, trip_id, user_email, 404, "")
       ELSE IF trips[trip_id].state \notin ExpectedState(op)
       THEN Failure(op, trip_id, user_email, 400, trips[trip_id].state)
       ELSE /\ procs' = [procs EXCEPT ![p] =
                   [Idle EXCEPT !.op = op, !.pc = "update",
                                !.trip_id = trip_id, !.user_email = user_email]]
            /\ UNCHANGED <<routes, trips, device_token, clock, evals, resp>>

\* UPDATE trips SET .. WHERE trip_id = %s, the commit, for a docking entry
\* the dock evaluation, and the answer.
CallUpdate(p) ==
    /\ procs[p].pc = "update"
    /\ clock < MaxClock
    /\ LET t == procs[p].trip_id
           op == procs[p].op
           now == clock + 1
           row == CASE op = "start_trip" -> StartTripUpdate(trips[t], now)
                    [] op = "end_trip" -> EndTripUpdate(trips[t], now)
                    [] op = "enter_docking_zone" ->
                         EnterDockingZoneUpdate(trips[t],
                             CHOOSE l \in Locations : TRUE, now)
           updated == Session([trips EXCEPT ![t] = row], NoFault)
           db == IF op = "enter_docking_zone"
                 THEN CheckEndStations(updated, OverlapStatus, t, trips[t].route_id,
                                       procs[p].user_email, NULL, NULL, now)
                 ELSE updated
       IN  /\ trips' = db.trips
           /\ evals' = db.evals
           /\ clock' = now
           /\ resp' = [NoResp EXCEPT !.op = op, !.caller = procs[p].user_email,
                                     !.trip_id = t, !.status = 200,
                                     !.state = row.state]
    /\ procs' = [procs EXCEPT ![p] = Idle]
    /\ UNCHANGED <<routes, device_token>>

NextInterleave ==
    \/ Heartbeat(CallTimes, {OverlapStatus})
    \/ \E p \in Procs, op \in ClientOps, t \in DOMAIN trips :
           CallSelect(p, op, t, trips[t].user_email)
    \/ \E p \in Procs : CallUpdate(p)

SpecInterleave == Init /\ [][NextInterleave]_vars

(***************************************************************************)
(* Active-trip scenario: ticks inside the windows of the routes, client    *)
(* calls of the owners, and any user asking for the active trip.           *)
(***************************************************************************)
\* SELECT .. FROM trips WHERE user_email = %s AND completed_at IS NULL
\* ORDER BY started_at DESC LIMIT 1: among the rows with the greatest
\* started_at the store returns any one.
GetActiveTrip(user_email) ==
    LET open == {i \in 1..Len(trips) :
                    trips[i].user_email = user_email /\ trips[i].completed_at = NULL}
        latest == {i \in open :
                      \A j \in open : trips[j].started_at <= trips[i].started_at}
    IN  /\ IF open = {}
           THEN resp' = [NoResp EXCEPT !.op = "get_active_trip",
                                       !.caller = user_email, !.status = 200]
           ELSE \E i \in latest :
                    resp' = [NoResp EXCEPT !.op = "get_active_trip",
                                           !.caller = user_email, !.status = 200,
                                           !.trip_id = i, !.state = trips[i].state]
        /\ evals' = <<>>
        /\ UNCHANGED <<routes, trips, device_token, clock, procs>>

NextActive ==
    \/ Heartbeat(FaultTimes, {OverlapStatus})
    \/ \E u \in Users : GetActiveTrip(u)
    \/ \E t \in DOMAIN trips : StartTrip(t, trips[t].user_email)
    \/ \E t \in DOMAIN trips : EndTrip(t, trips[t].user_email)

SpecActive == Init /\ [][NextActive]_vars

(***************************************************************************)
(* Route creation scenario: the routes table starts empty; users create    *)
(* routes by name and delete their routes, one call at a time.             *)
(***************************************************************************)
RouteNames == {"home", "work"}

\* route_id of the next INSERT: generated by the store, never reused.
NewRouteIds == <<"r1", "r2", "r3", "r4", "r5", "r6">>

\* Faulty variant of the lookup: the name alone, whoever owns the route.
ExistingRouteOfAnyUser(user_email, name) ==
    {r \in DOMAIN routes : routes[r].name = name}

\* SELECT route_id FROM routes WHERE user_email = %s AND name = %s
ExistingRoute(user_email, name) ==
    {r \in DOMAIN routes : routes[r].user_email = user_email /\ routes[r].name = name}

\* The row of  INSERT INTO routes (user_email, name, ..): is_active is left
\* to the column default.
NewRoute(user_email, name, is_active) ==
    [user_email |-> user_email,
     name |-> name,
     start_station_ids |-> <<7000, 7002>>,
     end_station_ids |-> <<7004>>,
     target_departure_time |-> NullTime,
     alert_lead_time_minutes |-> 15,
     days_of_week |-> {},
     bikes_threshold |-> 2,
     docks_threshold |-> 2,
     is_active |-> is_active]

CreateRoute(user_email, name) ==
    /\ clock < MaxClock
    /\ LET existing == ExistingRoute(user_email, name)
       IN  IF existing # {}
           THEN /\ \E r \in existing :
                      resp' = [NoResp EXCEPT !.op = "create_route",
                                             !.caller = user_email, !.status = 201,
                                             !.name = name, !.route_id = r,
                                             !.existed = TRUE]
                /\ UNCHANGED <<routes, clock>>
           ELSE /\ \E is_active \in BOOLEAN :
                      routes' = (NewRouteIds[clock + 1] :>
                                     NewRoute(user_email, name, is_active)) @@ routes
                /\ clock' = clock + 1
                /\ resp' = [NoResp EXCEPT !.op = "create_route",
                                          !.caller = user_email, !.status = 201,
                                          !.name = name,
                                          !.route_id = NewRouteIds[clock + 1],
                                          !.existed = FALSE]
    /\ evals' = <<>>
    /\ UNCHANGED <<trips, device_token, procs>>

InitCreate ==
    /\ routes = <<>>
    /\ trips = <<>>
    /\ device_token = MainTokens
    /\ clock = 0
    /\ evals = <<>>
    /\ resp = NoResp
    /\ procs = NoProcs

NextCreate ==
    \/ \E u \in Users, n \in RouteNames : CreateRoute(u, n)
    \/ \E r \in DOMAIN routes, u \in Users : DeleteRoute(r, u)

SpecCreate == InitCreate /\ [][NextCreate]_vars

(***************************************************************************)
(* One-morning scenario: every handler takes a minute of one Wednesday     *)
(* morning, starting at 08:45, so all ticks fall inside the same alert     *)
(* windows of r1 and r3.                                                   *)
(***************************************************************************)
MorningMinute(c) == [weekday |-> 2, hour |-> 8, minute |-> 45 + c]

MorningTick == \E status \in FaultTables : HeartbeatAt(MorningMinute(clock), status)

NextMorning ==
    \/ MorningTick
    \/ \E t \in DOMAIN trips : StartTrip(t, trips[t].user_email)
    \/ \E t \in DOMAIN trips, l \in Locations :
           EnterDockingZone(t, trips[t].user_email, l, FaultTables)
    \/ \E t \in DOMAIN trips : EndTrip(t, trips[t].user_email)

SpecMorning == Init /\ [][NextMorning]_vars

(***************************************************************************)
(* Stale-sweep scenario: after ticks that ran alone, the statements of one *)
(* tick interleave with whole start_trip and end_trip calls of the trips'  *)
(* owners.                                                                 *)
(***************************************************************************)
NextStale ==
    \/ procs["p1"].op = "idle" /\ Heartbeat(CallTimes, FaultTables)
    \/ TickSelectCandidates("p1")
    \/ TickInsert("p1")
    \/ TickFirstCheck("p1")
    \/ TickSelectStarting("p1")
    \/ TickCheckStart("p1")
    \/ TickSelectDocking("p1")
    \/ TickCheckEnd("p1")
    \/ \E t \in DOMAIN trips : StartTrip(t, trips[t].user_email)
    \/ \E t \in DOMAIN trips : EndTrip(t, trips[t].user_email)

SpecStale == Init /\ [][NextStale]_vars

(***************************************************************************)
(* Selection comparison: both selection loops run on the same rows of      *)
(* (station_id, count), in any order of distinct stations, and the same    *)
(* threshold.                                                              *)
(***************************************************************************)
SelectionCounts == {0, 1, 2, 5}
SelectionThresholds == {0, 2, 3}

\* Results of the status query: at most one row per station, in list order.
SelectionRows ==
    UNION {{rows \in [1..n -> Stations \X SelectionCounts] :
               \A i, j \in 1..n : i # j => rows[i][1] # rows[j][1]} : n \in 0..3}

SelectBoth(rows, thr) ==
    /\ evals' = <<[kind |-> "selection", rows |-> rows, threshold |-> thr,
                   start |-> SelectStart(rows, thr),
                   end |-> SelectEnd(rows, thr)]>>
    /\ UNCHANGED <<routes, trips, device_token, clock, resp, procs>>

NextSelection == \E rows \in SelectionRows, thr \in SelectionThresholds : SelectBoth(rows, thr)

SpecSelection == Init /\ [][NextSelection]_vars

(***************************************************************************)
(* The /monitor status check.                                              *)
(***************************************************************************)
\* Latest rows of station_status a check may read: any subset of the
\* stations has an observation.
MonitorTables ==
    UNION {[S -> {Obs(b, d) : b \in {1, 5}, d \in {0, 5}}] : S \in SUBSET Stations}

\* status_map: the rows found for the stations of the route.
StatusMap(status, ids) ==
    [sid \in {x \in DOMAIN status : \E i \in 1..Len(ids) : ids[i] = x} |-> status[sid]]

\* One of the two loops of check_route_status, from position idx on (1 is
\* the primary station); side is "start" or "end", field "bikes" or "docks".
RECURSIVE MonitorScan(_, _, _, _, _, _, _, _)
MonitorScan(ids, idx, status_map, side, field, thr, alert, message) ==
    IF idx > Len(ids) THEN [alert |-> alert, message |-> message, found |-> FALSE]
    ELSE
    LET present == ids[idx] \in DOMAIN status_map
        primary_missing == idx = 1 /\ ~present
        primary_low == idx = 1 /\ present /\ status_map[ids[idx]][field] < thr
        alert1 == alert \/ primary_missing \/ primary_low
        message1 ==
            IF primary_missing
            THEN Append(message, "No status data for primary " \o side \o " station")
            ELSE IF primary_low
            THEN Append(message, "Primary " \o side \o " station low")
            ELSE message
    IN  IF present /\ status_map[ids[idx]][field] >= thr
        THEN [alert |-> alert1,
              message |-> IF idx > 1
                          THEN Append(message1, "Note: Using backup " \o side \o " station")
                          ELSE message1,
              found |-> TRUE]
        ELSE MonitorScan(ids, idx + 1, status_map, side, field, thr, alert1, message1)

\* Faulty variant of a side: a good backup station clears the alert.
MonitorSideBackupClears(ids, status_map, side, field, thr, alert, message) ==
    LET r == MonitorScan(ids, 1, status_map, side, field, thr, alert, message)
    IN  [alert |-> alert \/ ~r.found, message |-> r.message]

\* A loop and the test that follows it.
MonitorSide(ids, status_map, side, field, thr, alert, message) ==
    LET r == MonitorScan(ids, 1, status_map, side, field, thr, alert, message)
    IN  IF ~r.found /\ Len(ids) > 1
        THEN [alert |-> TRUE,
              message |-> Append(r.message, "All " \o side \o " stations low")]
        ELSE [alert |-> r.alert, message |-> r.message]

CheckRouteStatus(route_id, user_email, status) ==
    /\ IF ~(route_id \in DOMAIN routes /\ routes[route_id].user_email = user_email)
       THEN resp' = [NoResp EXCEPT !.op = "check_route_status", !.caller = user_email,
                                   !.route_id = route_id, !.status = 404]
       ELSE
       LET start_ids == routes[route_id].start_station_ids
           end_ids == routes[route_id].end_station_ids
       IN  IF start_ids = <<>> \/ end_ids = <<>>
           THEN resp' = [NoResp EXCEPT
                            !.op = "check_route_status", !.caller = user_email,
                            !.route_id = route_id, !.status = 200, !.alert = TRUE,
                            !.message = <<"Route must have both start and end stations configured">>]
           ELSE
           LET status_map == StatusMap(status, start_ids \o end_ids)
               s == MonitorSide(start_ids, status_map, "start", "bikes",
                                routes[route_id].bikes_threshold, FALSE, <<>>)
               e == MonitorSide(end_ids, status_map, "end", "docks",
                                routes[route_id].docks_threshold, s.alert, s.message)
           IN  resp' = [NoResp EXCEPT
                           !.op = "check_route_status", !.caller = user_email,
                           !.route_id = route_id, !.status = 200, !.alert = e.alert,
                           !.message = IF e.message = <<>> THEN <<"Good to go">>
                                       ELSE e.message,
                           !.data = status_map]
    /\ evals' = <<>>
    /\ UNCHANGED <<routes, trips, device_token, clock, procs>>

NextMonitor ==
    \E r \in DOMAIN routes, u \in Users, status \in MonitorTables :
        CheckRouteStatus(r, u, status)

SpecMonitor == Init /\ [][NextMonitor]_vars

(***************************************************************************)
(* Properties.                                                             *)
(***************************************************************************)
Evaluations == {evals[i] : i \in 1..Len(evals)}

OpenTripsOfUser(u) ==
    {i \in 1..Len(trips) : trips[i].user_email = u /\ trips[i].completed_at = NULL}

\* C1: after any sequence of ticks and client calls every user has at most
\* one trip whose completed_at is unset, however many of the user's enabled
\* routes have an alert window containing the tick's time.
AtMostOneOpenTripPerUser ==
    \A u \in Users : Cardinality(OpenTripsOfUser(u)) <= 1

\* C2: an evaluation whose selected focus and count equal the focus and
\* count stored on the trip by the previous evaluation dispatches no alert
\* and still writes last_checked_at.
DedupNoAlert ==
    \A e \in Evaluations :
        (e.new_focus = e.stored_focus /\ e.new_count = e.stored_count)
            => /\ ~e.dispatched
               /\ trips[e.trip_id].last_checked_at = clock

DedupWitness ==
    \E e \in Evaluations :
        /\ e.stored_focus # NULL
        /\ e.new_focus = e.stored_focus
        /\ e.new_count = e.stored_count
        /\ device_token[trips[e.trip_id].user_email]
        /\ trips[e.trip_id].last_checked_at = clock

\* C3: the evaluation of a trip whose stored focused_station_id is null and
\* whose owner has a device token dispatches a push alert, whatever
\* observations exist for the route's stations (none included).
FirstCheckDispatches ==
    \A e \in Evaluations :
        (e.stored_focus = NULL /\ device_token[trips[e.trip_id].user_email])
            => e.dispatched

\* C4: an evaluation decides to alert iff the previously focused station is
\* null, or the selected focus differs from it, or the selected count differs
\* from the stored count; start stations [7000, 7002] with threshold 2 and
\* bikes [1,5], [1,5], [1,1] give: alert (7002, 5); no alert; alert (7000, 1).
TraceRows(b1, b2) == <<<<7000, b1>>, <<7002, b2>>>>

AlertDecision ==
    \A e \in Evaluations :
        /\ e.should_alert <=> \/ e.stored_focus = NULL
                              \/ e.new_focus # e.stored_focus
                              \/ e.new_count # e.stored_count
        /\ (e.kind = "bike" /\ trips[e.trip_id].route_id = "r1"
              /\ routes["r1"].start_station_ids = <<7000, 7002>>
              /\ routes["r1"].bikes_threshold = 2)
           => /\ (e.rows = TraceRows(1, 5) /\ e.stored_focus = NULL)
                 => e.should_alert /\ e.new_focus = 7002 /\ e.new_count = 5
              /\ (e.rows = TraceRows(1, 5) /\ e.stored_focus = 7002
                    /\ e.stored_count = 5)
                 => ~e.should_alert /\ e.new_focus = 7002 /\ e.new_count = 5
              /\ (e.rows = TraceRows(1, 1) /\ e.stored_focus = 7002
                    /\ e.stored_count = 5)
                 => e.should_alert /\ e.new_focus = 7000 /\ e.new_count = 1

AlertDecisionWitness ==
    \E e \in Evaluations :
        /\ e.kind = "bike" /\ trips[e.trip_id].route_id = "r1"
        /\ e.rows = TraceRows(1, 1)
        /\ e.stored_focus = 7002 /\ e.stored_count = 5
        /\ e.should_alert /\ e.dispatched
        /\ trips[e.trip_id].focused_station_id = 7000
        /\ trips[e.trip_id].last_bike_count = 1

\* C5: for a candidate route and a tick at minute m of the day, the tick
\* creates a STARTING trip for the route iff
\* target_minutes - lead_minutes <= m < target_minutes + 60, with no wrap
\* across midnight; for target 09:00 and lead 15 that is no trip at 08:44,
\* a trip at every minute 08:45..09:59 and no trip at 10:00.
TickMinute == resp'.timestamp.hour * 60 + resp'.timestamp.minute

CandidateAtTick(rid) ==
    /\ routes[rid].is_active
    /\ routes[rid].target_departure_time # NullTime
    /\ ((resp'.timestamp.weekday + 1) % 7) \in routes[rid].days_of_week
    /\ ~HasOpenTrip(trips, routes[rid].user_email)

CreatedAtTick(rid) ==
    \E i \in (Len(trips) + 1)..Len(trips') :
        /\ trips'[i].route_id = rid
        /\ trips'[i].user_email = routes[rid].user_email
        /\ trips'[i].state = "STARTING"

ActivationWindow ==
    [][resp'.op = "heartbeat" =>
        \A rid \in DOMAIN routes :
            CandidateAtTick(rid) =>
                LET t == routes[rid].target_departure_time
                    target == t.hour * 60 + t.minute
                    lead == routes[rid].alert_lead_time_minutes
                IN  /\ CreatedAtTick(rid) <=>
                          (target - lead <= TickMinute /\ TickMinute < target + 60)
                    /\ (target = 540 /\ lead = 15) =>
                          /\ TickMinute = 524 => ~CreatedAtTick(rid)
                          /\ TickMinute \in 525..599 => CreatedAtTick(rid)
                          /\ TickMinute = 600 => ~CreatedAtTick(rid)]_vars

ActivationWindowWitness ==
    /\ resp.op = "heartbeat"
    /\ resp.timestamp = [weekday |-> 2, hour |-> 9, minute |-> 59]
    /\ resp.activated = 1
    /\ routes["r1"].target_departure_time = [hour |-> 9, minute |-> 0]
    /\ routes["r1"].alert_lead_time_minutes = 15
    /\ Len(trips) = 1 /\ trips[1].state = "STARTING" /\ trips[1].started_at = 1

(***************************************************************************)
(* The selection an evaluation is expected to make, stated on the route's  *)
(* preference list and the observations the evaluation read.               *)
(***************************************************************************)
Least(S) == CHOOSE x \in S : \A y \in S : x <= y

PrefList(e) ==
    IF e.kind = "bike"
    THEN routes[trips[e.trip_id].route_id].start_station_ids
    ELSE routes[trips[e.trip_id].route_id].end_station_ids

Threshold(e) ==
    IF e.kind = "bike"
    THEN routes[trips[e.trip_id].route_id].bikes_threshold
    ELSE routes[trips[e.trip_id].route_id].docks_threshold

Observed(e) == {i \in 1..Len(PrefList(e)) : PrefList(e)[i] \in DOMAIN e.status}

CountAt(e, i) ==
    IF e.kind = "bike" THEN e.status[PrefList(e)[i]].bikes
    ELSE e.status[PrefList(e)[i]].docks

Qualifying(e) == {i \in Observed(e) : CountAt(e, i) >= Threshold(e)}

StoredCount(e) ==
    IF e.kind = "bike" THEN trips[e.trip_id].last_bike_count
    ELSE trips[e.trip_id].last_dock_count

Selects(e, i) ==
    /\ e.new_focus = PrefList(e)[i]
    /\ e.new_count = CountAt(e, i)
    /\ trips[e.trip_id].focused_station_id = PrefList(e)[i]
    /\ StoredCount(e) = CountAt(e, i)

SelectsNothing(e) ==
    /\ e.new_focus = NULL /\ e.new_count = 0
    /\ trips[e.trip_id].focused_station_id = NULL
    /\ StoredCount(e) = 0

\* The selection as the claims state it: the fallback is the head of the list.
SelectsFirstOfList(e) ==
    IF Qualifying(e) # {} THEN Selects(e, Least(Qualifying(e)))
    ELSE /\ e.new_focus = PrefList(e)[1]
         /\ trips[e.trip_id].focused_station_id = PrefList(e)[1]
         /\ 1 \in Observed(e) => (e.new_count = CountAt(e, 1)
                                  /\ StoredCount(e) = CountAt(e, 1))

\* The selection with the fallback on the first station that has a row.
SelectsFirstObserved(e) ==
    IF Qualifying(e) # {} THEN Selects(e, Least(Qualifying(e)))
    ELSE IF Observed(e) # {} THEN Selects(e, Least(Observed(e)))
    ELSE SelectsNothing(e)

FallsBackPastHead(e) ==
    /\ Qualifying(e) = {}
    /\ Observed(e) # {}
    /\ 1 \notin Observed(e)
    /\ e.new_focus = PrefList(e)[Least(Observed(e))]

\* C6 (as stated): start-side focus is the first station of the preference
\* list whose bike count >= T, else the first station of the list, for every
\* set of observations; the stored count is that station's bike count.
StartSelectionFirstOfList ==
    \A e \in Evaluations : e.kind = "bike" => SelectsFirstOfList(e)

\* C6 (amended): start-side focus is the first station of the preference
\* list whose observed bike count >= T, else the first station of the list
\* that has an observation, else null with count 0; the stored count is the
\* bike count of the selected station.
StartSelection ==
    \A e \in Evaluations : e.kind = "bike" => SelectsFirstObserved(e)

StartSelectionWitness ==
    \E e \in Evaluations : e.kind = "bike" /\ FallsBackPastHead(e)

\* C7 (as stated): end-side focus is the first station of the end-station
\* list whose dock count >= docks_threshold, else the first station of the
\* list; the stored count is that station's dock count.
EndSelectionFirstOfList ==
    \A e \in Evaluations : e.kind = "dock" => SelectsFirstOfList(e)

\* C7 (amended): end-side focus is the first station of the end-station list
\* whose observed dock count >= docks_threshold, else the first station of
\* the list that has an observation, else null with count 0; the stored
\* count is the dock count of the selected station.
EndSelection ==
    \A e \in Evaluations : e.kind = "dock" => SelectsFirstObserved(e)

EndSelectionWitness ==
    \E e \in Evaluations : e.kind = "dock" /\ FallsBackPastHead(e)

\* C8: the alert level sent with a dock alert is the zero-based index of the
\* focused station in the route's unfiltered end-station preference list.
DockAlertLevelIsListIndex ==
    \A e \in Evaluations :
        (e.kind = "dock" /\ e.dispatched) =>
            \E i \in 1..Len(PrefList(e)) :
                PrefList(e)[i] = e.new_focus /\ e.alert_level = i - 1

StateRank(state) ==
    CASE state = "STARTING" -> 1
      [] state = "CYCLING" -> 2
      [] state = "DOCKING" -> 3
      [] state = "COMPLETE" -> 4

\* C9: every tick and client call keeps all existing trips, creates trips
\* only in STARTING, never moves a trip's state backwards in the order
\* STARTING, CYCLING, DOCKING, COMPLETE, and leaves the state and
\* completed_at of a completed trip as they are.
LifecycleStep ==
    /\ Len(trips') >= Len(trips)
    /\ \A i \in 1..Len(trips) :
          /\ trips'[i].route_id = trips[i].route_id
          /\ trips'[i].user_email = trips[i].user_email
          /\ StateRank(trips'[i].state) >= StateRank(trips[i].state)
          /\ (trips[i].state = "COMPLETE" \/ trips[i].completed_at # NULL) =>
                /\ trips'[i].state = trips[i].state
                /\ trips'[i].completed_at = trips[i].completed_at
    /\ \A i \in (Len(trips) + 1)..Len(trips') : trips'[i].state = "STARTING"

Lifecycle == [][LifecycleStep]_vars

LifecycleWitness ==
    /\ resp.op = "end_trip" /\ resp.status = 404
    /\ resp.trip_id \in 1..Len(trips)
    /\ resp.caller = trips[resp.trip_id].user_email
    /\ trips[resp.trip_id].state = "COMPLETE"
    /\ trips[resp.trip_id].cycling_started_at # NULL
    /\ trips[resp.trip_id].completed_at # NULL

\* C10: start_trip(trip, caller) answers 200, moves the trip to CYCLING and
\* stamps cycling_started_at exactly when the trip is the caller's, not
\* completed and in STARTING; for an open trip of the caller in another
\* state it answers 400 naming the current state and changes nothing; with
\* no open trip of that id for the caller it answers 404 and changes
\* nothing; no other step moves a trip into CYCLING.
StartTripStep ==
    /\ resp'.op = "start_trip" =>
          LET t == resp'.trip_id
              u == resp'.caller
          IN  IF /\ t \in 1..Len(trips)
                 /\ trips[t].user_email = u
                 /\ trips[t].completed_at = NULL
              THEN IF trips[t].state = "STARTING"
                   THEN /\ resp'.status = 200
                        /\ trips' = [trips EXCEPT ![t].state = "CYCLING",
                                                  ![t].cycling_started_at = clock']
                   ELSE /\ resp'.status = 400
                        /\ resp'.state = trips[t].state
                        /\ trips' = trips
              ELSE /\ resp'.status = 404
                   /\ trips' = trips
    /\ \A i \in 1..Len(trips) :
          (trips[i].state # "CYCLING" /\ trips'[i].state = "CYCLING") =>
              /\ resp'.op = "start_trip"
              /\ resp'.status = 200
              /\ resp'.trip_id = i

StartTripContract == [][StartTripStep]_vars

StartTripWitness ==
    /\ resp.op = "start_trip" /\ resp.status = 400
    /\ resp.trip_id \in 1..Len(trips)
    /\ resp.caller = trips[resp.trip_id].user_email
    /\ resp.state = trips[resp.trip_id].state
    /\ trips[resp.trip_id].cycling_started_at # NULL

IsOpenTripOfCaller(t, u) ==
    /\ t \in 1..Len(trips)
    /\ trips[t].user_email = u
    /\ trips[t].completed_at = NULL

\* The columns an evaluation may write.
EvaluationColumns ==
    {"focused_station_id", "last_bike_count", "last_dock_count", "last_checked_at"}

SameExcept(old, new, columns) ==
    \A f \in (DOMAIN old) \ columns : new[f] = old[f]

\* C11: enter_docking_zone(trip, caller, lat, lon) answers 200 only for an
\* open trip of the caller in CYCLING, and then writes state DOCKING,
\* docking_started_at and the reported location together; for an open trip
\* of the caller in STARTING or DOCKING it answers 400 reporting that state
\* and changes nothing; with no open trip of the caller it answers 404 and
\* changes nothing; no other step moves a trip into DOCKING.
EnterDockingZoneStep ==
    /\ resp'.op = "enter_docking_zone" =>
          LET t == resp'.trip_id
              u == resp'.caller
          IN  IF IsOpenTripOfCaller(t, u)
              THEN IF trips[t].state = "CYCLING"
                   THEN /\ resp'.status = 200
                        /\ Len(trips') = Len(trips)
                        /\ \A i \in 1..Len(trips) : i # t => trips'[i] = trips[i]
                        /\ trips'[t].state = "DOCKING"
                        /\ trips'[t].docking_started_at = clock'
                        /\ trips'[t].last_location_update_at = clock'
                        /\ \E l \in Locations :
                              /\ trips'[t].last_known_lat = l.lat
                              /\ trips'[t].last_known_lon = l.lon
                        /\ SameExcept(trips[t], trips'[t],
                              EvaluationColumns \cup
                              {"state", "docking_started_at", "last_known_lat",
                               "last_known_lon", "last_location_update_at"})
                   ELSE /\ resp'.status = 400
                        /\ resp'.state = trips[t].state
                        /\ resp'.state \in {"STARTING", "DOCKING"}
                        /\ trips' = trips
              ELSE /\ resp'.status = 404
                   /\ trips' = trips
    /\ \A i \in 1..Len(trips) :
          (trips[i].state # "DOCKING" /\ trips'[i].state = "DOCKING") =>
              /\ trips[i].state = "CYCLING"
              /\ resp'.op = "enter_docking_zone"
              /\ resp'.status = 200
              /\ resp'.trip_id = i

EnterDockingZoneContract == [][EnterDockingZoneStep]_vars

EnterDockingZoneWitness ==
    /\ resp.op = "enter_docking_zone" /\ resp.status = 400
    /\ resp.trip_id \in 1..Len(trips)
    /\ resp.caller = trips[resp.trip_id].user_email
    /\ resp.state = "DOCKING"
    /\ trips[resp.trip_id].state = "DOCKING"
    /\ trips[resp.trip_id].last_known_lat # NULL

\* C12: end_trip(trip, caller) answers 200 for every open trip of the
\* caller, whatever its state, and writes state COMPLETE and completed_at;
\* on a completed trip (or a trip of another user) it answers 404 and
\* changes nothing; a completed_at once written never changes, and only a
\* successful end_trip writes it.
EndTripStep ==
    /\ resp'.op = "end_trip" =>
          LET t == resp'.trip_id
              u == resp'.caller
          IN  IF IsOpenTripOfCaller(t, u)
              THEN /\ resp'.status = 200
                   /\ trips[t].state \in {"STARTING", "CYCLING", "DOCKING"}
                   /\ trips' = [trips EXCEPT ![t].state = "COMPLETE",
                                             ![t].completed_at = clock']
              ELSE /\ resp'.status = 404
                   /\ trips' = trips
    /\ \A i \in 1..Len(trips) :
          /\ trips[i].completed_at # NULL =>
                trips'[i].completed_at = trips[i].completed_at
          /\ (trips[i].completed_at = NULL /\ trips'[i].completed_at # NULL) =>
                /\ resp'.op = "end_trip"
                /\ resp'.status = 200
                /\ resp'.trip_id = i

EndTripContract == [][EndTripStep]_vars

EndTripWitness ==
    /\ resp.op = "end_trip" /\ resp.status = 404
    /\ resp.trip_id \in 1..Len(trips)
    /\ resp.caller = trips[resp.trip_id].user_email
    /\ trips[resp.trip_id].state = "COMPLETE"
    /\ trips[resp.trip_id].cycling_started_at = NULL
    /\ trips[resp.trip_id].completed_at # NULL

\* C13: in every reachable state the lifecycle state of every trip agrees
\* with its timestamps: COMPLETE iff completed_at is set, CYCLING implies
\* cycling_started_at set, DOCKING implies docking_started_at set, and a
\* STARTING trip has none of the three set.
StateAgreesWithTimestamps ==
    \A i \in 1..Len(trips) :
        /\ trips[i].state = "COMPLETE" <=> trips[i].completed_at # NULL
        /\ trips[i].state = "CYCLING" => trips[i].cycling_started_at # NULL
        /\ trips[i].state = "DOCKING" => trips[i].docking_started_at # NULL
        /\ trips[i].state = "STARTING" =>
              /\ trips[i].cycling_started_at = NULL
              /\ trips[i].docking_started_at = NULL
              /\ trips[i].completed_at = NULL

StateAgreesWitness ==
    /\ \E i \in 1..Len(trips) :
          /\ trips[i].state = "DOCKING"
          /\ trips[i].cycling_started_at # NULL
          /\ trips[i].docking_started_at # NULL
    /\ \E i \in 1..Len(trips) :
          trips[i].state = "COMPLETE" /\ trips[i].completed_at # NULL

\* Positions in evals of the evaluations of trip i run by the latest step.
EvaluationsOf(i) == {k \in 1..Len(evals) : evals[k].trip_id = i}

\* The trips the latest tick created (trips are appended on creation).
ActivatedTrips ==
    IF resp.op = "heartbeat"
    THEN (Len(trips) - resp.activated + 1)..Len(trips)
    ELSE {}

\* C14: within one heartbeat tick a trip created by the activation phase is
\* evaluated exactly once; the sweep of the same tick does not evaluate it
\* again.
NewTripEvaluatedOnce ==
    \A i \in ActivatedTrips : Cardinality(EvaluationsOf(i)) = 1

\* C15: a tick that reports n activations has appended exactly n trips, each
\* in STARTING for a distinct route and that route's owner; the k-th of them
\* is followed by one immediate bike evaluation called with focused station
\* None and last count None; the remaining evaluations of the tick are those
\* of the sweep.
ActivationStep ==
    resp'.op = "heartbeat" =>
        /\ Len(trips') = Len(trips) + resp'.activated
        /\ Len(evals') = resp'.activated + resp'.starting + resp'.docking
        /\ \A k \in 1..resp'.activated :
              LET i == Len(trips) + k
              IN  /\ trips'[i].state = "STARTING"
                  /\ trips'[i].route_id \in DOMAIN routes
                  /\ trips'[i].user_email = routes[trips'[i].route_id].user_email
                  /\ trips'[i].completed_at = NULL
                  /\ evals'[k].trip_id = i
                  /\ evals'[k].kind = "bike"
                  /\ evals'[k].focused_station_id = NULL
                  /\ evals'[k].last_count = NULL
                  /\ evals'[k].should_alert
                  /\ \A j \in 1..resp'.activated :
                        j # k => trips'[Len(trips) + j].route_id # trips'[i].route_id

ActivationCreatesAndEvaluates == [][ActivationStep]_vars

ActivationWitness ==
    /\ resp.op = "heartbeat" /\ resp.activated = 2
    /\ Len(trips) = 2
    /\ trips[1].state = "STARTING" /\ trips[2].state = "STARTING"
    /\ trips[1].user_email # trips[2].user_email
    /\ evals[1].trip_id = 1 /\ evals[2].trip_id = 2
    /\ evals[1].focused_station_id = NULL /\ evals[2].focused_station_id = NULL

\* C16: a successful enter_docking_zone runs, in the same call, exactly one
\* dock evaluation of that trip, called with focused station None and last
\* count None; its alert decision is positive whatever focus and counts the
\* trip stored while STARTING.
DockingEntryStep ==
    (resp'.op = "enter_docking_zone" /\ resp'.status = 200) =>
        /\ Len(evals') = 1
        /\ evals'[1].trip_id = resp'.trip_id
        /\ evals'[1].kind = "dock"
        /\ evals'[1].focused_station_id = NULL
        /\ evals'[1].last_count = NULL
        /\ evals'[1].stored_focus = trips[resp'.trip_id].focused_station_id
        /\ evals'[1].should_alert
        /\ trips'[resp'.trip_id].focused_station_id = evals'[1].new_focus
        /\ trips'[resp'.trip_id].last_dock_count = evals'[1].new_count

DockingEntryEvaluates == [][DockingEntryStep]_vars

DockingEntryWitness ==
    /\ resp.op = "enter_docking_zone" /\ resp.status = 200
    /\ Len(evals) = 1
    /\ evals[1].stored_focus # NULL
    /\ evals[1].stored_focus = evals[1].new_focus
    /\ trips[resp.trip_id].last_bike_count = evals[1].new_count
    /\ evals[1].should_alert

\* C17: a heartbeat tick changes, on a trip that existed before it, nothing
\* but focused_station_id, the count of the trip's phase and
\* last_checked_at: state, started_at, cycling_started_at,
\* docking_started_at and completed_at stay as they were.
HeartbeatFrameStep ==
    resp'.op = "heartbeat" =>
        \A i \in 1..Len(trips) :
            /\ SameExcept(trips[i], trips'[i], EvaluationColumns)
            /\ trips[i].state # "STARTING" =>
                  trips'[i].last_bike_count = trips[i].last_bike_count
            /\ trips[i].state # "DOCKING" =>
                  trips'[i].last_dock_count = trips[i].last_dock_count

HeartbeatFrame == [][HeartbeatFrameStep]_vars

HeartbeatFrameWitness ==
    /\ resp.op = "heartbeat" /\ resp.activated = 0
    /\ \E k \in 1..Len(evals) :
          /\ evals[k].kind = "dock"
          /\ evals[k].should_alert
          /\ evals[k].stored_focus # evals[k].new_focus
          /\ trips[evals[k].trip_id].state = "DOCKING"
          /\ trips[evals[k].trip_id].docking_started_at < clock

\* C18: an evaluation that decides not to alert writes last_checked_at and
\* nothing else: the trip keeps the focus and the count it had before the
\* evaluation, and a trip that existed before the step differs from its
\* former row in last_checked_at only.
NoAlertStep ==
    \A k \in 1..Len(evals') :
        (~evals'[k].should_alert /\ \A j \in (k + 1)..Len(evals') :
                                        evals'[j].trip_id # evals'[k].trip_id) =>
            LET i == evals'[k].trip_id
                column == IF evals'[k].kind = "bike" THEN "last_bike_count"
                          ELSE "last_dock_count"
            IN  /\ trips'[i].focused_station_id = evals'[k].stored_focus
                /\ trips'[i][column] = evals'[k].stored_count
                /\ trips'[i].last_checked_at = clock'
                /\ (i <= Len(trips) /\ \A j \in 1..Len(evals') :
                                          evals'[j].trip_id = i => j = k) =>
                      trips'[i] = [trips[i] EXCEPT !.last_checked_at = clock']

NoAlertWritesCheckedOnly == [][NoAlertStep]_vars

NoAlertWitness ==
    /\ resp.op = "heartbeat" /\ resp.activated = 0
    /\ \E k \in 1..Len(evals) :
          /\ ~evals[k].should_alert
          /\ evals[k].stored_focus # NULL
          /\ trips[evals[k].trip_id].focused_station_id = evals[k].stored_focus
          /\ trips[evals[k].trip_id].started_at < clock

CountColumn(e) == IF e.kind = "bike" THEN "last_bike_count" ELSE "last_dock_count"

\* C19: in every alerting evaluation the push is attempted only after the
\* new focus, count and last_checked_at are committed to the trip; an
\* evaluation whose persistence fails dispatches nothing, leaves the trip as
\* it was and ends the handler.
PersistBeforeDispatch ==
    \A k \in 1..Len(evals) :
        LET e == evals[k]
            trip == trips[e.trip_id]
        IN  /\ e.dispatched =>
                  /\ e.should_alert /\ e.persisted
                  /\ trip.focused_station_id = e.new_focus
                  /\ trip[CountColumn(e)] = e.new_count
                  /\ trip.last_checked_at = clock
            /\ ~e.persisted =>
                  /\ ~e.dispatched /\ ~e.delivered
                  /\ trip.focused_station_id = e.stored_focus
                  /\ trip[CountColumn(e)] = e.stored_count
                  /\ k = Len(evals)
                  /\ resp.status = 500

PersistBeforeDispatchWitness ==
    /\ resp.status = 500
    /\ Len(evals) > 0
    /\ LET e == evals[Len(evals)]
       IN  /\ e.should_alert /\ ~e.persisted /\ ~e.dispatched
           /\ e.new_focus # NULL
           /\ device_token[trips[e.trip_id].user_email]
    /\ \E k \in 1..Len(evals) : evals[k].dispatched /\ evals[k].delivered

\* C20: a tick fails only when a store write fails: whatever the device
\* tokens and the outcome of the pushes, a tick without a store failure
\* answers 200 with its counts, and every open STARTING and DOCKING trip has
\* been evaluated by its sweep.
SweepIsolationStep ==
    resp'.op = "heartbeat" =>
        /\ resp'.status \in {200, 500}
        /\ resp'.status = 500 => resp'.fault.fail_at # NULL
        /\ resp'.status = 200 =>
              /\ resp'.starting =
                    Cardinality({i \in 1..Len(trips') :
                        trips'[i].completed_at = NULL /\ trips'[i].state = "STARTING"})
              /\ resp'.docking =
                    Cardinality({i \in 1..Len(trips') :
                        trips'[i].completed_at = NULL /\ trips'[i].state = "DOCKING"})
              /\ \A i \in 1..Len(trips') :
                    (trips'[i].completed_at = NULL
                        /\ trips'[i].state \in {"STARTING", "DOCKING"}) =>
                        \E k \in (resp'.activated + 1)..Len(evals') :
                            /\ evals'[k].trip_id = i
                            /\ evals'[k].kind =
                                  (IF trips'[i].state = "STARTING" THEN "bike" ELSE "dock")
                            /\ evals'[k].persisted

SweepIsolation == [][SweepIsolationStep]_vars

SweepIsolationWitness ==
    /\ resp.op = "heartbeat" /\ resp.status = 200
    /\ ~resp.fault.push_ok
    /\ \E k, m \in 1..Len(evals) :
          /\ evals[k].dispatched /\ ~evals[k].delivered
          /\ evals[m].should_alert /\ evals[m].new_focus # NULL
          /\ ~device_token[trips[evals[m].trip_id].user_email]
          /\ \E j \in 1..Len(evals) :
                /\ j > k /\ j > m
                /\ evals[j].trip_id \notin {evals[k].trip_id, evals[m].trip_id}

\* C21: an alerting evaluation whose UPDATE is committed leaves the same
\* focus, count and last_checked_at on the trip whether the push is
\* delivered, fails or is skipped for lack of a device token; a later
\* evaluation of the trip that selects the same focus and count therefore
\* does not alert again, although the first alert was not delivered.
BookkeepingIgnoresDelivery ==
    \A k \in 1..Len(evals) :
        LET e == evals[k]
            trip == trips[e.trip_id]
        IN  /\ (e.should_alert /\ e.persisted) =>
                  /\ trip.focused_station_id = e.new_focus
                  /\ trip[CountColumn(e)] = e.new_count
                  /\ trip.last_checked_at = clock
            /\ \A j \in (k + 1)..Len(evals) :
                  (/\ evals[j].trip_id = e.trip_id
                   /\ e.should_alert /\ e.persisted /\ ~e.delivered
                   /\ e.new_focus # NULL
                   /\ evals[j].new_focus = e.new_focus
                   /\ evals[j].new_count = e.new_count) =>
                      ~evals[j].should_alert /\ ~evals[j].dispatched

BookkeepingWitness ==
    \E k, m, j \in 1..Len(evals) :
        /\ evals[k].dispatched /\ ~evals[k].delivered
        /\ evals[m].should_alert /\ ~evals[m].dispatched /\ evals[m].persisted
        /\ evals[m].new_focus # NULL
        /\ j > k /\ evals[j].trip_id = evals[k].trip_id
        /\ evals[j].new_focus = evals[k].new_focus
        /\ ~evals[j].should_alert

\* C22: a tick during which a store write fails still answers with the
\* counts completed so far: every tick ends with status 200.
TickReportsPartialCounts ==
    resp.op = "heartbeat" => resp.status = 200

\* C23: an evaluation of a trip whose route no longer exists is a no-op:
\* in a tick the trip row stays as it was (last_checked_at included), no
\* evaluation result or alert exists for it and the tick answers 200; a
\* docking entry of such a trip writes its transition and nothing else.
MissingRouteStep ==
    /\ resp'.op = "heartbeat" =>
          /\ resp'.status = 200
          /\ \A i \in 1..Len(trips) :
                trips[i].route_id \notin DOMAIN routes =>
                    /\ trips'[i] = trips[i]
                    /\ \A k \in 1..Len(evals') : evals'[k].trip_id # i
    /\ (/\ resp'.op = "enter_docking_zone" /\ resp'.status = 200
        /\ trips[resp'.trip_id].route_id \notin DOMAIN routes) =>
          /\ evals' = <<>>
          /\ SameExcept(trips[resp'.trip_id], trips'[resp'.trip_id],
                {"state", "docking_started_at", "last_known_lat",
                 "last_known_lon", "last_location_update_at"})

MissingRouteIsNoOp == [][MissingRouteStep]_vars

MissingRouteWitness ==
    /\ resp.op = "heartbeat" /\ resp.status = 200
    /\ resp.starting >= 2
    /\ \E i, j \in 1..Len(trips) :
          /\ trips[i].state = "STARTING" /\ trips[i].completed_at = NULL
          /\ trips[i].route_id \notin DOMAIN routes
          /\ trips[i].last_checked_at < clock
          /\ trips[j].route_id \in DOMAIN routes
          /\ trips[j].last_checked_at = clock
          /\ i < j

\* C24: when two ticks overlap and both evaluate the same trip, at most one
\* alert is dispatched for one availability change or first check: no two
\* evaluations of a trip dispatch an alert for the same focus and count
\* while the observations stay the same.
OverlapSingleAlert ==
    \A k, j \in 1..Len(evals) :
        (/\ k < j
         /\ evals[k].trip_id = evals[j].trip_id
         /\ evals[k].kind = evals[j].kind
         /\ evals[k].dispatched /\ evals[j].dispatched) =>
            \/ evals[k].new_focus # evals[j].new_focus
            \/ evals[k].new_count # evals[j].new_count

\* C25: when two ticks overlap, no user has two open trips: the ticks never
\* both insert a STARTING trip for the same user and route.
OverlapOneOpenTrip ==
    \A i, j \in 1..Len(trips) :
        (/\ i < j
         /\ trips[i].completed_at = NULL /\ trips[j].completed_at = NULL
         /\ trips[i].user_email = trips[j].user_email) =>
            trips[i].route_id # trips[j].route_id

\* C26: when client transitions on the same trip interleave, a completed
\* trip is never moved back to CYCLING or DOCKING, the state never moves
\* backward, and state = COMPLETE iff completed_at is set.
InterleavedStep ==
    /\ \A i \in 1..Len(trips) :
          /\ StateRank(trips'[i].state) >= StateRank(trips[i].state)
          /\ trips[i].completed_at # NULL => trips'[i].state = "COMPLETE"
    /\ \A i \in 1..Len(trips') :
          trips'[i].state = "COMPLETE" <=> trips'[i].completed_at # NULL

InterleavedLifecycle == [][InterleavedStep]_vars

\* The weekday a route lists (0 = Sunday .. 6 = Saturday) for the platform
\* weekday w (0 = Monday .. 6 = Sunday): entry w + 1.
SundayBased == <<1, 2, 3, 4, 5, 6, 0>>

\* C27: a trip is only created for a route that, at the candidate selection
\* of the tick, is enabled, has a target departure time, lists the tick's
\* weekday among its active weekdays, and whose owner has no open trip.
CandidateStep ==
    \A i \in (Len(trips) + 1)..Len(trips') :
        LET r == routes[trips'[i].route_id]
        IN  /\ resp'.op = "heartbeat"
            /\ r.is_active
            /\ r.target_departure_time # NullTime
            /\ SundayBased[resp'.timestamp.weekday + 1] \in r.days_of_week
            /\ \A j \in 1..Len(trips) :
                  trips[j].user_email = r.user_email => trips[j].completed_at # NULL

OnlyCandidatesGetTrips == [][CandidateStep]_vars

\* A Thursday tick with the route of u1 disabled though it has a target
\* time and lists Thursday: the only trip created is that of u2's route.
OnlyCandidatesWitness ==
    /\ ~routes["r1"].is_active
    /\ routes["r1"].days_of_week = {4, 5}
    /\ routes["r1"].target_departure_time # NullTime
    /\ resp.op = "heartbeat" /\ resp.timestamp.weekday = 3 /\ resp.activated = 1
    /\ clock = 1 /\ Len(trips) = 1
    /\ trips[1].route_id = "r3"

\* C28: the weekday compared with a route's active weekdays is the tick's
\* weekday remapped to 0 = Sunday .. 6 = Saturday: (w + 1) mod 7 for the
\* platform's w, a bijection on 0..6 with Wednesday -> 3 and Sunday -> 0.
WeekdayRemapped ==
    /\ \A w \in 0..6 : ConvertWeekday(w) = SundayBased[w + 1]
    /\ ConvertWeekday(2) = 3 /\ ConvertWeekday(6) = 0
    /\ {ConvertWeekday(w) : w \in 0..6} = 0..6
    /\ \A v, w \in 0..6 : ConvertWeekday(v) = ConvertWeekday(w) => v = w
    /\ \A i \in ActivatedTrips :
          SundayBased[resp.timestamp.weekday + 1]
              \in routes[trips[i].route_id].days_of_week

\* A Sunday tick (platform weekday 6) creates the trip of a route that
\* lists weekday 0.
WeekdayRemappedWitness ==
    /\ resp.op = "heartbeat" /\ resp.timestamp.weekday = 6 /\ resp.activated = 1
    /\ routes[trips[Len(trips)].route_id].days_of_week = {0}

\* C29: one tick runs the activation to completion, then evaluates the open
\* STARTING trips with the bike evaluation, then the open DOCKING trips with
\* the dock evaluation: the first evaluations are those of the trips created,
\* in creation order; the sweep that follows sees every trip created; no
\* bike evaluation comes after a dock evaluation.
TickOrderStep ==
    resp'.op = "heartbeat" =>
        LET a == Len(trips') - Len(trips)
        IN  /\ Len(evals') >= a
            /\ \A k \in 1..a : evals'[k].trip_id = Len(trips) + k
            /\ \A i \in (Len(trips) + 1)..Len(trips') :
                  \E k \in (a + 1)..Len(evals') :
                      evals'[k].trip_id = i /\ evals'[k].kind = "bike"
            /\ \A j, k \in (a + 1)..Len(evals') :
                  (j < k /\ evals'[j].kind = "dock") => evals'[k].kind = "dock"

TickOrder == [][TickOrderStep]_vars

\* A tick that activated a route, swept a STARTING trip and swept a DOCKING
\* trip.
TickOrderWitness ==
    /\ resp.op = "heartbeat"
    /\ resp.activated >= 1 /\ resp.starting >= 1 /\ resp.docking >= 1
    /\ evals[Len(evals)].kind = "dock"

\* C30: the sweep evaluates each open STARTING trip exactly once with the
\* bike evaluation and each open DOCKING trip exactly once with the dock
\* evaluation, evaluates no CYCLING or COMPLETE trip, and its counts are the
\* numbers of STARTING and DOCKING trips swept.
SweepStep ==
    resp'.op = "heartbeat" /\ resp'.status = 200 =>
        LET a == resp'.activated
            s == resp'.starting
            d == resp'.docking
            open(st) == {i \in 1..Len(trips') :
                            trips'[i].completed_at = NULL /\ trips'[i].state = st}
        IN  /\ Len(evals') = a + s + d
            /\ s = Cardinality(open("STARTING"))
            /\ d = Cardinality(open("DOCKING"))
            /\ {evals'[k].trip_id : k \in (a + 1)..(a + s)} = open("STARTING")
            /\ {evals'[k].trip_id : k \in (a + s + 1)..(a + s + d)} = open("DOCKING")
            /\ \A k \in (a + 1)..(a + s) : evals'[k].kind = "bike"
            /\ \A k \in (a + s + 1)..(a + s + d) : evals'[k].kind = "dock"
            /\ \A k \in (a + 1)..Len(evals') :
                  trips'[evals'[k].trip_id].state \in {"STARTING", "DOCKING"}

SweepCoversOpenTrips == [][SweepStep]_vars

\* A tick that created nothing and swept a STARTING and a DOCKING trip.
SweepWitness ==
    /\ resp.op = "heartbeat" /\ resp.status = 200
    /\ resp.activated = 0 /\ resp.starting = 1 /\ resp.docking = 1
    /\ Len(evals) = 2

\* C31: get_active_trip(caller) returns a trip iff the caller owns a trip
\* with completed_at unset; the trip returned is owned by the caller and not
\* completed; right after a successful end_trip of the caller it returns no
\* active trip.
ActiveTripStep ==
    resp'.op = "get_active_trip" =>
        /\ resp'.trip_id # 0 <=> HasOpenTrip(trips, resp'.caller)
        /\ resp'.trip_id # 0 =>
              /\ resp'.trip_id \in 1..Len(trips)
              /\ trips[resp'.trip_id].user_email = resp'.caller
              /\ trips[resp'.trip_id].completed_at = NULL
              /\ trips[resp'.trip_id].state = resp'.state
        /\ (/\ resp.op = "end_trip" /\ resp.status = 200
            /\ resp.caller = resp'.caller) => resp'.trip_id = 0

ActiveTripContract == [][ActiveTripStep]_vars

\* C32: create_route is idempotent per (user, name): when the caller has a
\* route of that name it inserts nothing and returns that route's id with
\* existed = true; otherwise it inserts one route of the caller with that
\* name and returns existed = false; a user never has two routes of one name.
CreateRouteStep ==
    /\ resp'.op = "create_route" =>
          LET had == {r \in DOMAIN routes :
                         /\ routes[r].user_email = resp'.caller
                         /\ routes[r].name = resp'.name}
          IN  /\ resp'.existed <=> had # {}
              /\ resp'.existed => routes' = routes /\ resp'.route_id \in had
              /\ ~resp'.existed =>
                    /\ resp'.route_id \notin DOMAIN routes
                    /\ DOMAIN routes' = DOMAIN routes \cup {resp'.route_id}
                    /\ \A r \in DOMAIN routes : routes'[r] = routes[r]
                    /\ routes'[resp'.route_id].user_email = resp'.caller
                    /\ routes'[resp'.route_id].name = resp'.name
    /\ \A q, r \in DOMAIN routes' :
          (/\ routes'[q].user_email = routes'[r].user_email
           /\ routes'[q].name = routes'[r].name) => q = r

CreateRouteIdempotent == [][CreateRouteStep]_vars

\* A repeated create_route of a name the caller has, while the other user
\* has a route of the same name.
CreateRouteWitness ==
    /\ resp.op = "create_route" /\ resp.existed
    /\ \E r \in DOMAIN routes :
          routes[r].user_email # resp.caller /\ routes[r].name = resp.name

\* C33: a client transition that fails with 404 or 400 writes nothing: every
\* trip keeps all its fields and nothing is evaluated or dispatched; and no
\* client transition, failed or not, changes a trip owned by another user.
FailedCallStep ==
    resp'.op \in ClientOps =>
        /\ resp'.status \in {400, 404} =>
              /\ trips' = trips
              /\ routes' = routes
              /\ device_token' = device_token
              /\ evals' = <<>>
        /\ resp'.status \in {200, 400, 404}
        /\ Len(trips') = Len(trips)
        /\ \A i \in 1..Len(trips) :
              trips[i].user_email # resp'.caller => trips'[i] = trips[i]

FailedCallWritesNothing == [][FailedCallStep]_vars

\* end_trip was refused for the open trip of another user.
FailedCallWitness ==
    /\ resp.op = "end_trip" /\ resp.status = 404
    /\ resp.trip_id \in 1..Len(trips)
    /\ trips[resp.trip_id].user_email # resp.caller
    /\ trips[resp.trip_id].completed_at = NULL
    /\ trips[resp.trip_id].state = "DOCKING"

\* C34: within one day's alert window a route is activated at most once:
\* after its trip is ended inside the window, later ticks inside that window
\* create no other trip for the route.
ActivatedOncePerWindow ==
    \A i, j \in 1..Len(trips) :
        i < j => trips[i].route_id # trips[j].route_id

\* C35: a sweep that selected a trip as STARTING or DOCKING neither writes
\* focus or count fields to it nor dispatches an alert for it when, at the
\* time of its evaluation, the trip is no longer in that state (CYCLING or
\* COMPLETE after an interleaved start_trip or end_trip).
StaleSweepStep ==
    \A p \in Procs :
        (procs[p].pc \in {"sweep_starting", "sweep_docking"} /\ procs'[p] # procs[p]) =>
            \A i \in 1..Len(trips) :
                trips[i].state \in {"CYCLING", "COMPLETE"} =>
                    /\ trips'[i].focused_station_id = trips[i].focused_station_id
                    /\ trips'[i].last_bike_count = trips[i].last_bike_count
                    /\ trips'[i].last_dock_count = trips[i].last_dock_count
                    /\ \A k \in (Len(evals) + 1)..Len(evals') :
                          evals'[k].trip_id = i => ~evals'[k].dispatched

SweepSkipsMovedTrips == [][StaleSweepStep]_vars

\* C36: heartbeat ticks alone never complete a trip: a trip leaves the open
\* set only through a successful end_trip for it, a tick changes neither
\* state nor completion of an existing trip, and while a user's trip is open
\* no tick creates a trip for any route of that user.
OpenTripBlocksStep ==
    /\ \A i \in 1..Len(trips) :
          (trips[i].completed_at = NULL /\ trips'[i].completed_at # NULL) =>
              /\ resp'.op = "end_trip"
              /\ resp'.status = 200
              /\ resp'.trip_id = i
    /\ resp'.op = "heartbeat" =>
          /\ \A i \in 1..Len(trips) :
                /\ trips'[i].completed_at = trips[i].completed_at
                /\ trips'[i].state = trips[i].state
          /\ \A j \in 1..Len(trips) :
                trips[j].completed_at = NULL =>
                    \A i \in (Len(trips) + 1)..Len(trips') :
                        routes[trips'[i].route_id].user_email # trips[j].user_email

OpenTripBlocksActivation == [][OpenTripBlocksStep]_vars

\* A tick created a trip for one user while the other user's trip, started
\* by an earlier tick and now CYCLING, stayed open and blocked that user's
\* routes.
OpenTripBlocksWitness ==
    /\ resp.op = "heartbeat" /\ resp.activated = 1
    /\ \E j \in 1..(Len(trips) - 1) :
          /\ trips[j].state = "CYCLING"
          /\ trips[j].completed_at = NULL
          /\ trips[j].user_email # trips[Len(trips)].user_email
          /\ \E r \in DOMAIN routes :
                /\ routes[r].user_email = trips[j].user_email
                /\ InAlertWindow(routes[r].target_departure_time,
                                 routes[r].alert_lead_time_minutes, resp.timestamp)

\* C37: the start-side selection loop and the end-side selection with its
\* fallback compute the same (focus, count) for every ordered list of
\* (station, count) rows and every threshold; for the empty list both give
\* focus None and count 0.
SelectionsAgree ==
    \A k \in 1..Len(evals) :
        evals[k].kind = "selection" =>
            /\ evals[k].start = evals[k].end
            /\ evals[k].rows = <<>> => evals[k].start = <<NULL, 0>>

\* Three rows, none of which meets the threshold: the start side keeps its
\* default, the end side takes its fallback.
SelectionsAgreeWitness ==
    /\ Len(evals) = 1 /\ evals[1].kind = "selection"
    /\ Len(evals[1].rows) = 3
    /\ \A i \in 1..3 : evals[1].rows[i][2] < evals[1].threshold
    /\ evals[1].end = <<evals[1].rows[1][1], evals[1].rows[1][2]>>

\* C38: the /monitor check of a route with non-empty start and end lists
\* answers alert = false with the message "Good to go" iff the first start
\* station has an observation with bikes >= bikes_threshold and the first
\* end station has one with docks >= docks_threshold; in every other case
\* alert = true, whatever the backup stations hold.
MonitorPrimaryDecides ==
    (/\ resp.op = "check_route_status" /\ resp.status = 200
     /\ routes[resp.route_id].start_station_ids # <<>>
     /\ routes[resp.route_id].end_station_ids # <<>>) =>
        LET r == routes[resp.route_id]
            ps == r.start_station_ids[1]
            pe == r.end_station_ids[1]
            good == /\ ps \in DOMAIN resp.data
                    /\ resp.data[ps].bikes >= r.bikes_threshold
                    /\ pe \in DOMAIN resp.data
                    /\ resp.data[pe].docks >= r.docks_threshold
        IN  /\ good <=> ~resp.alert
            /\ good <=> resp.message = <<"Good to go">>

\* The primary start station is low while a backup start station is good
\* and the primary end station is good: the answer is still an alert.
MonitorPrimaryWitness ==
    /\ resp.op = "check_route_status" /\ resp.status = 200 /\ resp.alert
    /\ resp.route_id = "r1"
    /\ 7000 \in DOMAIN resp.data /\ resp.data[7000].bikes = 1
    /\ resp.data[7000].docks = 5
    /\ 7002 \in DOMAIN resp.data /\ resp.data[7002].bikes = 5

====
